---- MODULE Spec2Model ----
(***************************************************************************)
(* Model of the risk-text extractor of the NexiAgent frontend              *)
(* (src/frontend/src/App.tsx, parseRisksFromLLMResponse and its helpers).  *)
(* Texts are TLA+ strings processed character by character; positions are  *)
(* 1-based and the position Len(s)+1 is the end of the text.  A value that *)
(* the code keeps in a local constant is passed on as an operator          *)
(* parameter, so that it is computed once.                                 *)
(***************************************************************************)
EXTENDS Integers, Sequences, FiniteSets, TLC

(***************************************************************************)
(* Characters and the JavaScript string primitives the extractor uses.     *)
(***************************************************************************)

\* s.charAt(p-1): the empty string outside the text.
Ch(s, p) == IF p >= 1 /\ p <= Len(s) THEN SubSeq(s, p, p) ELSE ""

\* s.substring(p-1, q-1): the characters at positions p .. q-1, the end
\* clamped to the end of the text.
Sub(s, p, q) ==
  IF q <= p \/ p > Len(s) THEN ""
  ELSE SubSeq(s, p, IF q - 1 > Len(s) THEN Len(s) ELSE q - 1)

Digits == {"0", "1", "2", "3", "4", "5", "6", "7", "8", "9"}

\* The class \s of a regular expression, on the characters of the inputs.
IsSpace(c) == c \in {" ", "\n", "\t", "\r", "\f"}

\* The characters a regular expression's dot does not match.
IsLineTerminator(c) == c \in {"\n", "\r"}

UpperToLower ==
  [c \in {"A", "B", "C", "D", "E", "F", "G", "H", "I", "J", "K", "L", "M",
          "N", "O", "P", "Q", "R", "S", "T", "U", "V", "W", "X", "Y", "Z"} |->
     CASE c = "A" -> "a" [] c = "B" -> "b" [] c = "C" -> "c" [] c = "D" -> "d"
       [] c = "E" -> "e" [] c = "F" -> "f" [] c = "G" -> "g" [] c = "H" -> "h"
       [] c = "I" -> "i" [] c = "J" -> "j" [] c = "K" -> "k" [] c = "L" -> "l"
       [] c = "M" -> "m" [] c = "N" -> "n" [] c = "O" -> "o" [] c = "P" -> "p"
       [] c = "Q" -> "q" [] c = "R" -> "r" [] c = "S" -> "s" [] c = "T" -> "t"
       [] c = "U" -> "u" [] c = "V" -> "v" [] c = "W" -> "w" [] c = "X" -> "x"
       [] c = "Y" -> "y" [] c = "Z" -> "z"]

\* One character lower-cased, as the flag i and toLowerCase do.
Lower(c) == IF c \in DOMAIN UpperToLower THEN UpperToLower[c] ELSE c

\* String.prototype.toLowerCase, halving the text.
RECURSIVE toLowerCase(_)
toLowerCase(s) ==
  IF Len(s) = 0 THEN ""
  ELSE IF Len(s) = 1 THEN Lower(s)
  ELSE toLowerCase(SubSeq(s, 1, Len(s) \div 2))
         \o toLowerCase(SubSeq(s, Len(s) \div 2 + 1, Len(s)))

\* The literal lit occurs at position p.
LitAt(s, p, lit) ==
  /\ p >= 1
  /\ p + Len(lit) - 1 <= Len(s)
  /\ SubSeq(s, p, p + Len(lit) - 1) = lit

\* String.prototype.includes
includes(s, sub) == \E p \in 1..(Len(s) - Len(sub) + 1) : LitAt(s, p, sub)

\* The least position of lo..hi that satisfies P, hi+1 when none does.
FirstWhere(lo, hi, P(_)) ==
  IF \E q \in lo..hi : P(q)
  THEN CHOOSE q \in lo..hi : P(q) /\ \A r \in lo..(q - 1) : ~P(r)
  ELSE hi + 1

\* The greatest position of lo..hi that satisfies P, lo-1 when none does.
LastWhere(lo, hi, P(_)) ==
  IF \E q \in lo..hi : P(q)
  THEN CHOOSE q \in lo..hi : P(q) /\ \A r \in (q + 1)..hi : ~P(r)
  ELSE lo - 1

\* First position >= p that holds no white space (Len(s)+1 at the end).
SkipSpace(s, p) == FirstWhere(p, Len(s), LAMBDA q : ~IsSpace(Ch(s, q)))

\* Last position <= q that holds no white space (0 when there is none).
SkipSpaceBack(s, q) == LastWhere(1, q, LAMBDA r : ~IsSpace(Ch(s, r)))

\* The characters at positions a .. b.
Span(s, a, b) == IF a > b THEN "" ELSE SubSeq(s, a, b)

\* String.prototype.trim
trim(s) == Span(s, SkipSpace(s, 1), SkipSpaceBack(s, Len(s)))

\* First position >= p that holds no digit.
SkipDigits(s, p) == FirstWhere(p, Len(s), LAMBDA q : Ch(s, q) \notin Digits)

\* First position >= p that holds the character c, 0 when there is none.
IndexOf(s, c, p) == FirstWhere(p, Len(s), LAMBDA r : Ch(s, r) = c) % (Len(s) + 1)

\* Last position <= q that holds the character c, 0 when there is none.
LastIndexOf(s, c, q) == LastWhere(1, q, LAMBDA r : Ch(s, r) = c)

Range(f) == {f[k] : k \in DOMAIN f}

\* pieces.filter(keep), for a test given as the set of pieces it keeps.
RECURSIVE filter(_, _)
filter(pieces, kept) ==
  IF pieces = <<>> THEN <<>>
  ELSE (IF Head(pieces) \in kept THEN <<Head(pieces)>> ELSE <<>>)
         \o filter(Tail(pieces), kept)

RECURSIVE Flatten(_)
Flatten(seqs) == IF seqs = <<>> THEN <<>> ELSE Head(seqs) \o Flatten(Tail(seqs))

(***************************************************************************)
(* JavaScript values: what JSON.parse returns and what a record's field    *)
(* can hold.                                                               *)
(***************************************************************************)
Undefined == [t |-> "undefined"]
Null == [t |-> "null"]
Bool(b) == [t |-> "bool", v |-> b]
Num(lit) == [t |-> "num", v |-> lit]
Str(s) == [t |-> "str", v |-> s]
Arr(items) == [t |-> "arr", v |-> items]
Obj(members) == [t |-> "obj", v |-> members]

\* A number literal denotes zero when its mantissa holds no digit but 0.
NumIsZero(lit) ==
  \A p \in 1..Len(lit) :
    Ch(lit, p) \in (Digits \ {"0"}) => \E q \in 1..(p - 1) : Ch(lit, q) \in {"e", "E"}

\* ToBoolean: what && and || test.
Truthy(x) ==
  CASE x.t = "undefined" -> FALSE
    [] x.t = "null" -> FALSE
    [] x.t = "bool" -> x.v
    [] x.t = "num" -> ~NumIsZero(x.v)
    [] x.t = "str" -> x.v # ""
    [] OTHER -> TRUE

\* a ?? b, which falls back only for null and undefined.
OrElseNullish(a, b) == IF a.t \in {"undefined", "null"} THEN b ELSE a

\* a || b
OrElse(a, b) == IF Truthy(a) THEN a ELSE b

\* The value of the last member named key (JSON.parse keeps the last
\* duplicate), undefined when there is none.
RECURSIVE Member(_, _, _)
Member(members, key, k) ==
  IF k = 0 THEN Undefined
  ELSE IF members[k][1] = key THEN members[k][2]
  ELSE Member(members, key, k - 1)

\* x.key for a value that is neither null nor undefined: an own property of
\* an object, undefined on arrays and primitives.
Prop(x, key) ==
  IF x.t = "obj" THEN Member(x.v, key, Len(x.v)) ELSE Undefined

(***************************************************************************)
(* JSON.parse, by recursive descent over the JSON grammar.  A parse step   *)
(* returns [ok, v, p]: whether it succeeded, the value, the next position. *)
(***************************************************************************)
JsonWs == {" ", "\t", "\n", "\r"}

ParseOk(v, p) == [ok |-> TRUE, v |-> v, p |-> p]
ParseFail(p) == [ok |-> FALSE, v |-> Undefined, p |-> p]

SkipWs(s, p) == FirstWhere(p, Len(s), LAMBDA q : Ch(s, q) \notin JsonWs)

\* The character an escape sequence \c stands for ("" when c is no escape).
\* \b and \uXXXX are not decoded: no input of the model holds one.
Unescape(c) ==
  CASE c = "\"" -> "\""
    [] c = "\\" -> "\\"
    [] c = "/" -> "/"
    [] c = "n" -> "\n"
    [] c = "t" -> "\t"
    [] c = "r" -> "\r"
    [] c = "f" -> "\f"
    [] OTHER -> ""

\* The characters of a string literal from position p (just after the
\* opening quote) on; acc holds the characters read so far, q is the next
\* quote, backslash or control character.
RECURSIVE ParseChars(_, _, _)
ParseChars(s, p, acc) ==
  LET CharsTo(q) ==
        CASE q > Len(s) -> ParseFail(q)
          [] Ch(s, q) = "\"" -> ParseOk(Str(acc \o Sub(s, p, q)), q + 1)
          [] Ch(s, q) = "\\" /\ Unescape(Ch(s, q + 1)) # "" ->
               ParseChars(s, q + 2, acc \o Sub(s, p, q) \o Unescape(Ch(s, q + 1)))
          [] OTHER -> ParseFail(q)
  IN  CharsTo(FirstWhere(p, Len(s),
                         LAMBDA r : Ch(s, r) \in {"\"", "\\", "\n", "\t", "\r", "\f"}))

\* number: -? (0 | [1-9][0-9]*) (. [0-9]+)? ([eE] [+-]? [0-9]+)?
\* p is where the literal starts, a where its digits start, b where the
\* integer part ends, c where the fraction ends, e where the digits of the
\* exponent start, d where the literal ends.
ParseNumber(s, p) ==
  LET NumberEnd(b, c, e, d) ==
        IF (Ch(s, b) = "." /\ c = b + 1) \/ (e > c /\ d = e) THEN ParseFail(p)
        ELSE ParseOk(Num(Sub(s, p, d)), d)
      NumberExponent(b, c, e) ==
        NumberEnd(b, c, e, IF e > c THEN SkipDigits(s, e) ELSE c)
      NumberFraction(b, c) ==
        NumberExponent(b, c,
                       IF Ch(s, c) \in {"e", "E"}
                       THEN (IF Ch(s, c + 1) \in {"+", "-"} THEN c + 2 ELSE c + 1)
                       ELSE c)
      NumberInteger(a, b) ==
        IF b = a THEN ParseFail(p)
        ELSE NumberFraction(b, IF Ch(s, b) = "." THEN SkipDigits(s, b + 1) ELSE b)
      NumberDigits(a) ==
        NumberInteger(a, IF Ch(s, a) = "0" THEN a + 1 ELSE SkipDigits(s, a))
  IN  NumberDigits(IF Ch(s, p) = "-" THEN p + 1 ELSE p)

RECURSIVE ParseValue(_, _), ParseElements(_, _, _), ParseMembers(_, _, _)

\* value, with the white space before it.
ParseValue(s, p0) ==
  LET ValueAt(p) ==
        CASE Ch(s, p) = "{" -> ParseMembers(s, SkipWs(s, p + 1), <<>>)
          [] Ch(s, p) = "[" -> ParseElements(s, SkipWs(s, p + 1), <<>>)
          [] Ch(s, p) = "\"" -> ParseChars(s, p + 1, "")
          [] Ch(s, p) = "-" \/ Ch(s, p) \in Digits -> ParseNumber(s, p)
          [] LitAt(s, p, "true") -> ParseOk(Bool(TRUE), p + 4)
          [] LitAt(s, p, "false") -> ParseOk(Bool(FALSE), p + 5)
          [] LitAt(s, p, "null") -> ParseOk(Null, p + 4)
          [] OTHER -> ParseFail(p)
  IN  ValueAt(SkipWs(s, p0))

\* The elements of an array from position p on, acc holding those read so
\* far: the closing bracket of an empty array, or an element and then a
\* comma and more elements or the closing bracket.
ParseElements(s, p, acc) ==
  LET ElementNext(q, read) ==
        CASE Ch(s, q) = "]" -> ParseOk(Arr(read), q + 1)
          [] Ch(s, q) = "," -> ParseElements(s, q + 1, read)
          [] OTHER -> ParseFail(q)
      ElementRead(e) ==
        IF ~e.ok THEN ParseFail(e.p)
        ELSE ElementNext(SkipWs(s, e.p), Append(acc, e.v))
  IN  IF Ch(s, p) = "]" /\ acc = <<>> THEN ParseOk(Arr(<<>>), p + 1)
      ELSE ElementRead(ParseValue(s, p))

\* The members of an object from the non-blank position p on, acc holding
\* those read so far: the closing brace of an empty object, or a key, a
\* colon and a value and then a comma and more members or the closing brace.
ParseMembers(s, p, acc) ==
  LET MemberNext(r, read) ==
        CASE Ch(s, r) = "}" -> ParseOk(Obj(read), r + 1)
          [] Ch(s, r) = "," -> ParseMembers(s, SkipWs(s, r + 1), read)
          [] OTHER -> ParseFail(r)
      MemberRead(key, e) ==
        IF ~e.ok THEN ParseFail(e.p)
        ELSE MemberNext(SkipWs(s, e.p), Append(acc, <<key, e.v>>))
      MemberColon(k, q) ==
        IF Ch(s, q) # ":" THEN ParseFail(q)
        ELSE MemberRead(k.v.v, ParseValue(s, q + 1))
      MemberKey(k) ==
        IF ~k.ok THEN ParseFail(k.p) ELSE MemberColon(k, SkipWs(s, k.p))
  IN  CASE Ch(s, p) = "}" /\ acc = <<>> -> ParseOk(Obj(<<>>), p + 1)
        [] Ch(s, p) = "\"" -> MemberKey(ParseChars(s, p + 1, ""))
        [] OTHER -> ParseFail(p)

\* JSON.parse(text): ok with the value, or not ok (a SyntaxError is thrown).
\* Only white space may follow the value.
JSONparse(text) ==
  LET ParseEnd(r) ==
        IF r.ok /\ SkipWs(text, r.p) > Len(text)
        THEN [ok |-> TRUE, v |-> r.v]
        ELSE [ok |-> FALSE, v |-> Undefined]
  IN  ParseEnd(ParseValue(text, 1))

(***************************************************************************)
(* Risk records.  The list built by a call holds each record with the tier *)
(* that made it and the entry, section or sentence it was made from; the   *)
(* tag is bookkeeping of the model, the record proper is the field rec.    *)
(***************************************************************************)
RiskId(n) == "risk-" \o ToString(n)

Made(rec, tier, src) == [rec |-> rec, tier |-> tier, src |-> src]

(***************************************************************************)
(* Tier 1: the embedded JSON object.                                       *)
(***************************************************************************)

\* A match that is not greedy, /\{[\s\S]*?\}/: the block from the first
\* opening brace to the first closing brace after it.
jsonMatchShortest(response) ==
  LET Block(a, b) ==
        IF a > 0 /\ b > a
        THEN [found |-> TRUE, str |-> SubSeq(response, a, b)]
        ELSE [found |-> FALSE, str |-> ""]
      From(a) == Block(a, IF a > 0 THEN IndexOf(response, "}", a) ELSE 0)
  IN  From(IndexOf(response, "{", 1))

\* response.match(/\{[\s\S]*\}/): the block from the first opening brace,
\* at a, to the last closing brace after it, at b; found is FALSE when match
\* returns null.
jsonMatch(response) ==
  LET Block(a, b) ==
        IF a > 0 /\ b > a
        THEN [found |-> TRUE, str |-> SubSeq(response, a, b)]
        ELSE [found |-> FALSE, str |-> ""]
  IN  Block(IndexOf(response, "{", 1), LastIndexOf(response, "}", Len(response)))

\* The object literal pushed for the entry at 0-based position index.
JsonRisk(risk, index) ==
  [id |-> RiskId(index + 1),
   description |-> Prop(risk, "description"),
   category |-> Prop(risk, "category"),
   likelihood |-> OrElse(Prop(risk, "likelihood"), Str("Medium")),
   impact |-> OrElse(Prop(risk, "impact"), Str("Medium")),
   treatmentStrategy |->
     OrElse(Prop(risk, "treatment_strategy"),
            OrElse(Prop(risk, "treatmentStrategy"),
                   Str("Implement appropriate risk mitigation strategies."))),
   isSelected |-> TRUE,
   assetValue |-> OrElse(Prop(risk, "asset_value"), Str("")),
   department |-> OrElse(Prop(risk, "department"), Str("")),
   riskOwner |-> OrElse(Prop(risk, "risk_owner"), Str("")),
   securityImpact |-> OrElse(Prop(risk, "security_impact"), Undefined),
   targetDate |-> OrElse(Prop(risk, "target_date"), Str("")),
   riskProgress |-> OrElse(Prop(risk, "risk_progress"), Str("Identified")),
   residualExposure |-> OrElse(Prop(risk, "residual_exposure"), Undefined)]

\* The test of the forEach callback: risk.description && risk.category.
JsonEntryAccepted(risk) ==
  Truthy(Prop(risk, "description")) /\ Truthy(Prop(risk, "category"))

\* parsedData.risks.forEach(...), from the 1-based entry k on.  Reading a
\* property of null throws a TypeError, which ends the loop with the
\* records pushed so far left in the list.
RECURSIVE JsonForEach(_, _, _)
JsonForEach(entries, k, made) ==
  IF k > Len(entries) THEN [made |-> made, error |-> "none"]
  ELSE IF entries[k].t = "null" THEN [made |-> made, error |-> "TypeError"]
  ELSE JsonForEach(entries, k + 1,
                   IF JsonEntryAccepted(entries[k])
                   THEN Append(made, Made(JsonRisk(entries[k], k - 1), "json", k))
                   ELSE made)

\* The body of the try block: the list as the block leaves it, whether the
\* block returned the list, and the error thrown inside the block ("none"
\* when there was none).  A text that is not JSON makes JSON.parse throw a
\* SyntaxError; the list is returned when the loop ends with a record in it.
TryBlock(response) ==
  LET TryResult(made, returned, error) ==
        [made |-> made, returned |-> returned, error |-> error]
      AfterForEach(loop) ==
        TryResult(loop.made, loop.error = "none" /\ Len(loop.made) > 0, loop.error)
      AfterRisks(entries) ==
        IF entries.t = "arr" THEN AfterForEach(JsonForEach(entries.v, 1, <<>>))
        ELSE TryResult(<<>>, FALSE, "none")
      AfterParse(parsedData) ==
        IF parsedData.ok THEN AfterRisks(Prop(parsedData.v, "risks"))
        ELSE TryResult(<<>>, FALSE, "SyntaxError")
      AfterMatch(match) ==
        IF match.found THEN AfterParse(JSONparse(match.str))
        ELSE TryResult(<<>>, FALSE, "none")
  IN  AfterMatch(jsonMatch(response))

\* A catch clause that lets the error go on to the caller.
CatchBlockRethrows(error) == error

\* A catch clause that swallows a TypeError only and lets every other error
\* go on to the caller.
CatchBlockTypeErrorOnly(error) == IF error = "TypeError" THEN "none" ELSE error

\* The catch clause: the error is logged and goes no further.
CatchBlock(error) == "none"

(***************************************************************************)
(* String.prototype.split on the three separators the extractor uses.      *)
(* A separator is given by its match at one position: the position just    *)
(* after the match that starts at q, or 0 when none starts there.          *)
(***************************************************************************)

\* /\d+\.\s*Risk|Risk\s*\d+:|^Risk\s*\d+/i at position q.  The flag i is
\* modelled by matching on low, the lower-cased copy of the text.  In
\* \d+\.\s*Risk the digits end at d and the white space at w; in Risk\s*\d+
\* the white space ends at w and the digits at d.
HeaderAt(low, q) ==
  LET NumberRiskEnd(w) == IF LitAt(low, w, "risk") THEN w + 4 ELSE 0
      NumberRisk(d) ==
        IF Ch(low, d) = "." THEN NumberRiskEnd(SkipSpace(low, d + 1)) ELSE 0
      RiskNumberEnd(w, d) ==
        CASE d > w /\ Ch(low, d) = ":" -> d + 1
          [] d > w /\ q = 1 -> d
          [] OTHER -> 0
      RiskNumber(w) == RiskNumberEnd(w, SkipDigits(low, w))
  IN  CASE Ch(low, q) \in Digits -> NumberRisk(SkipDigits(low, q))
        [] LitAt(low, q, "risk") -> RiskNumber(SkipSpace(low, q + 4))
        [] OTHER -> 0

\* /\n\s*\n/ at position q: the greedy \s* gives back to the last line feed,
\* at l, of the white space that follows.
ParagraphBreakAt(s, q) ==
  LET BreakEnd(l) == IF l > q THEN l + 1 ELSE 0
  IN  IF Ch(s, q) = "\n"
      THEN BreakEnd(LastIndexOf(s, "\n", SkipSpace(s, q + 1) - 1))
      ELSE 0

\* /[.!?]+/ at position q.
SentenceEndAt(s, q) ==
  IF Ch(s, q) \in {".", "!", "?"}
  THEN FirstWhere(q, Len(s), LAMBDA r : Ch(s, r) \notin {".", "!", "?"})
  ELSE 0

SeparatorAt(re, low, q) ==
  CASE re = "header" -> HeaderAt(low, q)
    [] re = "paragraph" -> ParagraphBreakAt(low, q)
    [] re = "sentence" -> SentenceEndAt(low, q)

\* The loop of split: p is where the current piece starts, acc the pieces
\* cut so far, ends[q] the end of the separator that starts at q, and q the
\* start of the leftmost separator at p or later.
RECURSIVE SplitFrom(_, _, _, _)
SplitFrom(s, ends, p, acc) ==
  LET SplitAt(q) ==
        IF q > Len(s) THEN Append(acc, Sub(s, p, Len(s) + 1))
        ELSE SplitFrom(s, ends, ends[q], Append(acc, Sub(s, p, q)))
  IN  SplitAt(FirstWhere(p, Len(s), LAMBDA r : ends[r] # 0))

\* s.split(re): no separator matches the empty string, so the empty text
\* splits into one empty piece.
split(s, re) ==
  LET SeparatorEnds(low) == [q \in 1..Len(low) |-> SeparatorAt(re, low, q)]
  IN  SplitFrom(s, SeparatorEnds(toLowerCase(s)), 1, <<>>)

(***************************************************************************)
(* The label expressions of parseRiskSection:                              *)
(*   (?:label|...)\s*[:.]?\s*(.+?)(?=\n|$|stop|...)       and              *)
(*   (?:label|...)\s*[:.]?\s*(High|Medium|Low)            with flag i.     *)
(* A match is searched from the leftmost start, the alternatives in their  *)
(* order, \s* and [:.]? greedy with backtracking.  The flag i is modelled  *)
(* by matching the words on low, the lower-cased copy of the text s.       *)
(***************************************************************************)
NoGroup == [found |-> FALSE, text |-> ""]

\* The match g when there is one, else the next attempt.
OrNext(g, next) == IF g.found THEN g ELSE next

\* The positions greedy \s* can stop at when it starts at p, longest first.
SpaceEnds(s, p) ==
  LET Backwards(m) == [k \in 1..(m - p + 1) |-> m - k + 1]
  IN  Backwards(SkipSpace(s, p))

\* The positions [:.]? can stop at when it starts at a, taking first.
ColonEnds(s, a) == IF Ch(s, a) \in {":", "."} THEN <<a + 1, a>> ELSE <<a>>

\* The positions \s*[:.]?\s* can stop at when it starts at p, in the order
\* the backtracking tries them.
PrefixEnds(s, p) ==
  LET ColonEndsOf(as) == Flatten([k \in 1..Len(as) |-> ColonEnds(s, as[k])])
      SpaceEndsOf(bs) == Flatten([k \in 1..Len(bs) |-> SpaceEnds(s, bs[k])])
  IN  SpaceEndsOf(ColonEndsOf(SpaceEnds(s, p)))

\* The lookahead (?=\n|$|stop|...) at position e.
StopAt(low, e, stops) ==
  \/ e > Len(low)
  \/ Ch(low, e) = "\n"
  \/ \E w \in stops : LitAt(low, e, w)

\* (.+?)(?=...) at position c: the shortest group of one character or more
\* that the lookahead follows.  The dot matches no line terminator, so the
\* group ends at the first position e where the lookahead holds or a line
\* terminator stands, and matches when the lookahead holds there.
LazyGroup(s, low, c, stops) ==
  LET LazyTo(e) ==
        IF StopAt(low, e, stops) THEN [found |-> TRUE, text |-> Sub(s, c, e)]
        ELSE NoGroup
  IN  IF c > Len(s) \/ IsLineTerminator(Ch(s, c)) THEN NoGroup
      ELSE LazyTo(FirstWhere(c + 1, Len(low),
                             LAMBDA r : StopAt(low, r, stops)
                                          \/ IsLineTerminator(Ch(low, r))))

\* (High|Medium|Low) at position c, as written in the text.
LevelGroup(s, low, c) ==
  CASE LitAt(low, c, "high") -> [found |-> TRUE, text |-> Sub(s, c, c + 4)]
    [] LitAt(low, c, "medium") -> [found |-> TRUE, text |-> Sub(s, c, c + 6)]
    [] LitAt(low, c, "low") -> [found |-> TRUE, text |-> Sub(s, c, c + 3)]
    [] OTHER -> NoGroup

\* The group at position c: a level word, or lazy text up to a stop.
GroupAt(s, low, c, stops, level) ==
  IF level THEN LevelGroup(s, low, c) ELSE LazyGroup(s, low, c, stops)

\* The first of the positions cs[k..] at which the group matches.
RECURSIVE FirstGroup(_, _, _, _, _, _)
FirstGroup(s, low, cs, k, stops, level) ==
  IF k > Len(cs) THEN NoGroup
  ELSE OrNext(GroupAt(s, low, cs[k], stops, level),
              FirstGroup(s, low, cs, k + 1, stops, level))

\* The match that starts at position i, trying the labels from the j-th on.
RECURSIVE LabelAt(_, _, _, _, _, _, _)
LabelAt(s, low, i, labels, j, stops, level) ==
  IF j > Len(labels) THEN NoGroup
  ELSE OrNext(IF LitAt(low, i, labels[j])
              THEN FirstGroup(s, low, PrefixEnds(s, i + Len(labels[j])), 1, stops, level)
              ELSE NoGroup,
              LabelAt(s, low, i, labels, j + 1, stops, level))

\* section.match(re): the first group of the leftmost match, matches[i]
\* being the match that starts at position i.
LabelMatch(s, low, labels, stops, level) ==
  LET Leftmost(matches) ==
        matches[FirstWhere(1, Len(s), LAMBDA r : matches[r].found)]
  IN  Leftmost([i \in 1..(Len(s) + 1) |->
                  LabelAt(s, low, i, labels, 1, stops, level)])

(***************************************************************************)
(* Tier 2: the section-split tier.                                         *)
(***************************************************************************)

\* The three replacements of cleanText take off one leading bullet, one
\* leading enumeration number and one leading colon or period, each with
\* the white space around it, and trim the rest.  The bullet class holds a
\* hyphen, a bullet sign and an asterisk; the texts of the model are ASCII,
\* so the bullet sign never occurs.  The leading white space ends at a, the
\* digits at d.
cleanText(text) ==
  LET StripOne(s, a, class) ==
        IF Ch(s, a) \in class THEN Sub(s, SkipSpace(s, a + 1), Len(s) + 1) ELSE s
      StripDigits(s, a, d) ==
        IF d > a /\ Ch(s, d) = "." THEN Sub(s, SkipSpace(s, d + 1), Len(s) + 1) ELSE s
      StripBullet(s) == StripOne(s, SkipSpace(s, 1), {"-", "*"})
      StripNumber(s) ==
        StripDigits(s, SkipSpace(s, 1), SkipDigits(s, SkipSpace(s, 1)))
      StripColon(s) == StripOne(s, SkipSpace(s, 1), {":", "."})
  IN  trim(StripColon(StripNumber(StripBullet(text))))

\* a || b on strings
TextOr(a, b) == IF a # "" THEN a ELSE b

extractFirstParagraph(text) ==
  LET First(paragraphs) == paragraphs[1]
  IN  TextOr(First(split(text, "paragraph")), Sub(text, 1, 201))

extractLastParagraph(text) ==
  LET Last(paragraphs) == paragraphs[Len(paragraphs)]
  IN  TextOr(Last(split(text, "paragraph")),
             "Implement appropriate risk mitigation strategies.")

\* match ? match[1].trim() : other
TrimmedOr(match, other) == IF match.found THEN trim(match.text) ELSE other

\* match ? match[1] : "Low"
GroupOrLow(match, other) == IF match.found THEN match.text ELSE "Low"

\* match ? match[1] : other
GroupOr(match, other) == IF match.found THEN match.text ELSE other

\* The description a section resolves to, before the length test.
SectionDescription(section, low) ==
  TrimmedOr(LabelMatch(section, low,
                       <<"description", "risk description", "description:">>,
                       {"category", "likelihood", "impact", "treatment"}, FALSE),
            extractFirstParagraph(section))

\* if (!description || description.length < 10) return null
SectionRejected(description) == description = "" \/ Len(description) < 10

\* The record parseRiskSection returns for a section, with the description
\* it resolved, when it does not reject it.
SectionRisk(section, low, description, riskNumber) ==
  [id |-> RiskId(riskNumber),
   description |-> Str(cleanText(description)),
   category |->
     Str(cleanText(TrimmedOr(
       LabelMatch(section, low,
                  <<"category", "risk category", "category:">>,
                  {"likelihood", "impact", "treatment", "description"}, FALSE),
       "Operational Risks"))),
   likelihood |->
     Str(GroupOr(LabelMatch(section, low, <<"likelihood", "likelihood:">>, {}, TRUE),
                 "Medium")),
   impact |->
     Str(GroupOr(LabelMatch(section, low, <<"impact", "impact:">>, {}, TRUE),
                 "Medium")),
   treatmentStrategy |->
     Str(cleanText(TrimmedOr(
       LabelMatch(section, low,
                  <<"treatment", "strategy", "treatment strategy", "risk treatment",
                    "treatment strategy:">>,
                  {"risk"}, FALSE),
       extractLastParagraph(section)))),
   isSelected |-> TRUE,
   assetValue |-> Str(""),
   department |-> Str(""),
   riskOwner |-> Str(""),
   securityImpact |-> Undefined,
   targetDate |-> Str(""),
   riskProgress |-> Str("Identified"),
   residualExposure |-> Undefined]

\* parseRiskSection(section, riskNumber): the records it adds to the list,
\* none when it returns null.  No step of its try block throws.
parseRiskSection(section, riskNumber) ==
  LET Parsed(low, description) ==
        IF SectionRejected(description) THEN <<>>
        ELSE <<Made(SectionRisk(section, low, description, riskNumber),
                    "section", riskNumber)>>
      Lowered(low) == Parsed(low, SectionDescription(section, low))
  IN  Lowered(toLowerCase(section))

\* response.split(header), with the blank pieces left in.
riskSectionsUnfiltered(response) == split(response, "header")

\* response.split(header).filter(section => section.trim())
riskSections(response) ==
  LET NonBlank(pieces) == filter(pieces, {x \in Range(pieces) : trim(x) # ""})
  IN  NonBlank(split(response, "header"))

\* riskSections.forEach((section, index) => ...), from the 1-based section
\* k on, pushing onto the list made.
RECURSIVE SectionForEach(_, _, _)
SectionForEach(sections, k, made) ==
  IF k > Len(sections) THEN made
  ELSE SectionForEach(sections, k + 1,
                      made \o parseRiskSection(trim(sections[k]), k))

(***************************************************************************)
(* Tier 3: the keyword-sentence tier, extractRisksFromText.                *)
(***************************************************************************)

\* The alternatives of the two riskIndicators expressions, both with the
\* flags g and i.
IndicatorWords ==
  << <<"risk", "threat", "vulnerability", "exposure", "hazard">>,
     <<"operational", "financial", "strategic", "compliance", "cybersecurity",
       "environmental", "reputational">> >>

\* The length of the first alternative of words that occurs at position p,
\* 0 when none does.
WordAt(low, p, words) ==
  LET WordLen(j) == IF j > Len(words) THEN 0 ELSE Len(words[j])
  IN  WordLen(FirstWhere(1, Len(words), LAMBDA r : LitAt(low, p, words[r])))

\* indicator.test(s) for an expression whose lastIndex is last: the search
\* starts at lastIndex and finds the leftmost match, at p; a match leaves
\* lastIndex just after it, a failure resets lastIndex to 0.
RegexTest(words, low, last) ==
  LET TestAt(p) ==
        IF last > Len(low) \/ p > Len(low)
        THEN [found |-> FALSE, last |-> 0]
        ELSE [found |-> TRUE, last |-> p - 1 + WordAt(low, p, words)]
  IN  TestAt(FirstWhere(last + 1, Len(low), LAMBDA r : WordAt(low, r, words) > 0))

\* riskIndicators.some(indicator => indicator.test(s)): the second
\* expression is tested, and its lastIndex moved, only when the test of the
\* first fails.  The flag i is modelled by matching on the lower-cased copy
\* of s.
SomeIndicator(s, indices) ==
  LET SomeOf(t1, t2) ==
        IF t1.found THEN [found |-> TRUE, indices |-> <<t1.last, indices[2]>>]
        ELSE [found |-> t2.found, indices |-> <<t1.last, t2.last>>]
      SomeLowered(low) ==
        SomeOf(RegexTest(IndicatorWords[1], low, indices[1]),
               RegexTest(IndicatorWords[2], low, indices[2]))
  IN  SomeLowered(toLowerCase(s))

\* A lookup in which the last entry with a keyword that occurs decides.
LookupLast(table, text, fallback) ==
  LET EntryOr(j) == IF j < 1 THEN fallback ELSE table[j][2]
      LookupLowered(textLower) ==
        EntryOr(LastWhere(1, Len(table),
                          LAMBDA r : \E w \in table[r][1] : includes(textLower, w)))
  IN  LookupLowered(toLowerCase(text))

\* The first entry of a keyword table with a keyword that occurs in the
\* lower-cased text decides; fallback when no entry has one.
Lookup(table, text, fallback) ==
  LET EntryOr(j) == IF j > Len(table) THEN fallback ELSE table[j][2]
      LookupLowered(textLower) ==
        EntryOr(FirstWhere(1, Len(table),
                           LAMBDA r : \E w \in table[r][1] : includes(textLower, w)))
  IN  LookupLowered(toLowerCase(text))

CategoryTable ==
  << <<{"competition", "competitor", "market share"}, "Competition">>,
     <<{"external", "economic", "political"}, "External">>,
     <<{"financial", "money", "cost", "revenue"}, "Financial">>,
     <<{"innovation", "research", "development", "rd"}, "Innovation">>,
     <<{"internal", "employee", "management"}, "Internal">>,
     <<{"legal", "compliance", "regulation", "law"}, "Legal and Compliance">>,
     <<{"operational", "process", "system"}, "Operational">>,
     <<{"project", "timeline", "scope"}, "Project Management">>,
     <<{"reputation", "brand", "public"}, "Reputational">>,
     <<{"safety", "health", "accident"}, "Safety">>,
     <<{"strategic", "business", "market"}, "Strategic">>,
     <<{"technology", "cyber", "security", "data breach"}, "Technology">> >>

LikelihoodTable ==
  << <<{"critical", "extremely likely", "certain"}, "Critical">>,
     <<{"severe", "very likely", "frequent"}, "Severe">>,
     <<{"high", "likely", "probable"}, "High">>,
     <<{"low", "unlikely", "rare"}, "Low">> >>

ImpactTable ==
  << <<{"critical", "catastrophic", "devastating"}, "Critical">>,
     <<{"severe", "major", "significant"}, "Severe">>,
     <<{"high", "substantial", "considerable"}, "High">>,
     <<{"low", "minor", "minimal"}, "Low">> >>

determineCategory(text) == Lookup(CategoryTable, text, "Operational")
determineLikelihood(text) == Lookup(LikelihoodTable, text, "Medium")
determineImpact(text) == Lookup(ImpactTable, text, "Medium")

\* The record pushed for a qualifying sentence.
TextRisk(cleanSentence, riskCount) ==
  [id |-> RiskId(riskCount),
   description |-> Str(cleanText(cleanSentence)),
   category |-> Str(determineCategory(cleanSentence)),
   likelihood |-> Str(determineLikelihood(cleanSentence)),
   impact |-> Str(determineImpact(cleanSentence)),
   treatmentStrategy |->
     Str("Implement appropriate controls and monitoring based on risk assessment."),
   isSelected |-> TRUE,
   assetValue |-> Str(""),
   department |-> Str(""),
   riskOwner |-> Str(""),
   securityImpact |-> Undefined,
   targetDate |-> Str(""),
   riskProgress |-> Str("Identified"),
   residualExposure |-> Undefined]

\* text.split(/[.!?]+/).filter(sentence => sentence.trim().length > 20)
Sentences(text) ==
  LET LongEnough(pieces) ==
        filter(pieces, {x \in Range(pieces) : Len(trim(x)) > 20})
  IN  LongEnough(split(text, "sentence"))

\* The bound of riskCount.
MaxTextRisks == 10

\* sentences.forEach(...), from the 1-based sentence k on: made holds the
\* records pushed so far (riskCount is their number), indices the lastIndex
\* of the two expressions.
RECURSIVE TextForEach(_, _, _, _)
TextForEach(sentences, k, made, indices) ==
  LET Tested(cleanSentence, hasRiskKeywords) ==
        TextForEach(sentences, k + 1,
                    IF hasRiskKeywords.found /\ Len(made) < MaxTextRisks
                    THEN Append(made, Made(TextRisk(cleanSentence, Len(made) + 1),
                                           "text", k))
                    ELSE made,
                    hasRiskKeywords.indices)
      Trimmed(cleanSentence) ==
        IF Len(cleanSentence) < 20 THEN TextForEach(sentences, k + 1, made, indices)
        ELSE Tested(cleanSentence, SomeIndicator(cleanSentence, indices))
  IN  IF k > Len(sentences) THEN [made |-> made, indices |-> indices]
      ELSE Trimmed(trim(sentences[k]))

\* Two expressions that outlive the call and keep their lastIndex.
riskIndicatorsShared(left) == left

\* The lastIndex of the two expressions that one call of extractRisksFromText
\* starts from: the array literal builds both expressions anew, with
\* lastIndex 0, whatever earlier calls left behind.
riskIndicators(left) == <<0, 0>>

\* extractRisksFromText(text), given what the previous call left behind.
extractRisksFromText(text, left) ==
  TextForEach(Sentences(text), 1, <<>>, riskIndicators(left))

(***************************************************************************)
(* The inputs of the model: responses built around a JSON object whose     *)
(* risks array holds up to MaxEntries entries, and plain-text responses.   *)
(* An input is [text, json]: the response and the JSON object it was built *)
(* around ("" when there is none).                                         *)
(***************************************************************************)
MaxEntries == 2

EntryTexts ==
  << "{\"description\":\"Vendor contract overdue\",\"category\":\"Legal\"}",
     "{\"description\":\"Server may fail\",\"category\":\"Technology\",\"likelihood\":\"High\",\"impact\":\"Low\",\"treatment_strategy\":\"Replace it\",\"risk_progress\":\"Mitigated\"}",
     "{\"description\":\"\",\"category\":\"Legal\",\"impact\":\"High\"}",
     "null",
     "{\"description\":\"Outage\",\"category\":\"IT\",\"likelihood\":0,\"treatmentStrategy\":\"Add a UPS\"}" >>

RECURSIVE Join(_, _)
Join(texts, sep) ==
  IF texts = <<>> THEN ""
  ELSE IF Len(texts) = 1 THEN texts[1]
  ELSE texts[1] \o sep \o Join(Tail(texts), sep)

\* The JSON object whose risks array holds the chosen entries.
ObjectText(choice) ==
  "{\"risks\":[" \o Join([k \in 1..Len(choice) |-> EntryTexts[choice[k]]], ",") \o "]}"

Choices == UNION {[1..n -> 1..Len(EntryTexts)] : n \in 0..MaxEntries}

\* The JSON object alone, for every choice of entries.
BareInputs == {[text |-> ObjectText(ch), json |-> ObjectText(ch)] : ch \in Choices}

\* Prose around the JSON object: prose with a Risk header, field labels and
\* a keyword sentence, and prose that holds braces of its own.
Contexts ==
  { [pre |-> "Risk 1: Description: Power outage at the main site\nCategory: Operational\n\n",
     post |-> "\nThis is a strategic risk to the business overall."],
    [pre |-> "Here you go: ", post |-> " Use the {id} field."] }

\* The choices of entries that are put between prose: no entry, valid
\* entries, a valid entry before a null entry, entries that are skipped.
ProseChoices == {<<>>, <<1>>, <<1, 2>>, <<1, 4>>, <<2, 5>>, <<3, 3>>}

JsonInputs ==
  BareInputs \cup
  { [text |-> c.pre \o ObjectText(ch) \o c.post, json |-> ObjectText(ch)] :
      c \in Contexts, ch \in ProseChoices }

OtherJsonInputs ==
  { [text |-> "{\"data\":1}", json |-> "{\"data\":1}"],
    [text |-> "{\"risks\":\"none\"}", json |-> "{\"risks\":\"none\"}"],
    [text |-> "{\"risks\":[{\"description\":\"Weak passwords\",\"category\":\"IT\",}]}", json |-> ""],
    [text |-> "Result {none} so far", json |-> ""],
    [text |-> "{\"risks\":[{\"description\":\"Flood in the archive\",\"category\":\"Safety\",\"likelihood\":\"Almost certain\",\"impact\":7}]}",
     json |-> "{\"risks\":[{\"description\":\"Flood in the archive\",\"category\":\"Safety\",\"likelihood\":\"Almost certain\",\"impact\":7}]}"] }

SectionTexts ==
  { "1. Risk Description: Aging server hardware may fail. Category: Technology. Likelihood: High. Impact: High. Treatment Strategy: Replace hardware within 6 months.",
    "Intro text here.\n\nRisk 1: Description: Data loss from outage\nCategory: -\nLikelihood: low\n\nRisk 2: 1. abcdefg\n\nlast para",
    "Risk 1: Short\n\nRisk 2: Description: Supplier may go bankrupt\nCategory: Financial\nImpact: High\nTreatment: Dual sourcing",
    "Risk 1\nDescription: * 1. :\nCategory: Legal\n2. Risk Description: - 1. tiny\nCategory: 3. Safety",
    "Key findings of the review are listed below",
    "Summary. Description: n/a\n\nRisk 1: Description: Data centre flooding\nCategory: Safety",
    "Risk 1: Description: Warehouse fire destroys stock\nTreatment: Transfer the risk to an insurer",
    "Findings overview text.\n\nRisk 1: Unpatched servers in the plant\nLikelihood: Very high\nImpact: severe\n\nPatch them monthly",
    "The company faces significant cybersecurity risk from outdated systems and unpatched vulnerabilities that could lead to a major data breach." }

\* A text of more keyword sentences than extractRisksFromText takes: a short
\* first paragraph, then sentences that hold the word risk further and
\* further to the right.
ManySentences ==
  LET Pad(k) == Join([j \in 1..k |-> "abcd"], " ")
  IN  "Top.\n\n" \o
      Join([k \in 1..(MaxTextRisks + 2) |-> Pad(k) \o " risk in an item of the list"],
           ". ")

KeywordTexts ==
  { "Summary\n\nThe company faces significant cybersecurity risk from outdated systems and unpatched vulnerabilities that could lead to a major data breach.",
    "Note\n\nRisk is high for the team here. Risk is low for the others now. A financial loss is very likely soon! ok? This sentence has nothing of note.",
    "Risks\n\n-                    a hazard",
    "Hi there. All good. Bye now.",
    "Intro.\n\nThe risk is here now. Then it was all fine again.",
    "Intro.\n\nThe risk is here, too. But one hazard is left.",
    ManySentences,
    "" }

Inputs ==
  JsonInputs \cup OtherJsonInputs \cup
  {[text |-> t, json |-> ""] : t \in SectionTexts \cup KeywordTexts}

\* The inputs of the specification that compares the calls of one response:
\* every keyword text, and inputs that end in each of the other tiers.
ProbeInputs ==
  {[text |-> t, json |-> ""] : t \in KeywordTexts} \cup
  { [text |-> "Risk 1: Short\n\nRisk 2: Description: Supplier may go bankrupt\nCategory: Financial\nImpact: High\nTreatment: Dual sourcing",
     json |-> ""],
    [text |-> ObjectText(<<1, 2>>), json |-> ObjectText(<<1, 2>>)],
    [text |-> ObjectText(<<1, 4>>), json |-> ObjectText(<<1, 4>>)],
    [text |-> ObjectText(<<>>), json |-> ObjectText(<<>>)] }
(***************************************************************************)
(* The state machine: calls of parseRisksFromLLMResponse, one after the    *)
(* other, each stepping through its tiers.                                 *)
(***************************************************************************)
VARIABLES
  pc,         \* "idle", or where the current call stands: "try" (before the
              \* try block), "fallback" (before the header split), "text"
              \* (before extractRisksFromText), "done" (returned or thrown)
  response,   \* the argument of the current call
  embedded,   \* the JSON object the response was built around
  risks,      \* the list risks of the current call, each record with its origin
  caught,     \* the error the catch clause caught in the current call
  thrown,     \* the error that left the current call
  result,     \* the list the current call returned, each record with its origin
  lastIndex,  \* lastIndex of the two riskIndicators expressions built last
  seen,       \* a result kept from an earlier call: [set, input, out, threw]
  classified, \* the text the keyword classifiers were called with last
  category,   \* what determineCategory returned for it, in each revision
  likelihood, \* what determineLikelihood returned for it, in each revision
  storedToken,     \* localStorage.getItem("token"): Null or a string
  token,           \* App: the token the component holds, Null or a string
  isSignup,        \* Auth: sign-up mode rather than sign-in mode
  username,        \* Auth: the user name typed
  password,        \* Auth: the password typed
  authError,       \* Auth: error, "" or a message
  loading,         \* Auth: loading
  request,         \* Auth: "none", or "pending" while handleSubmit awaits
  lastAttempt,     \* how the last handleSubmit since the page was loaded
                   \* ended: "none", "ok", "failed"
  registerView,    \* RiskRegister: "loading", "open", "closing" (the timer
                   \* of onClose is pending) or "closed"
  finalizedRisks,  \* RiskRegister: the list the component holds
  serverRisks,     \* the list of finalized risks the backend holds
  registerError,   \* RiskRegister: error, Null or a message
  searchTerm,      \* RiskRegister: the search term
  filterCategory,  \* RiskRegister: the category filter, "" for all
  filterProgress,  \* RiskRegister: the progress filter, "" for all
  lastDelete,      \* the last click on Delete: the id of the card, the index
                   \* sent, the id the index has in finalizedRisks
  controls,        \* ControlTable: the prop controls, Null before the mount
  rows,            \* ControlTable: the rows the component holds
  selectAll,       \* ControlTable: the flag of the header checkbox
  animationStates, \* Chatbot: the map animationStates, message id to
                   \* [isAnimating, currentText, timer], timer 0 for null,
                   \* Undefined for an id the map does not hold
  timers,          \* the timers of window.setTimeout that are pending:
                   \* [handle, messageId, closure], closure the text of tick
  mounted,         \* AnimatedText, per message id: the component is mounted
  props,           \* AnimatedText, per message id: the props text, animate
  displayedText,   \* AnimatedText, per message id: displayedText
  indexRef,        \* AnimatedText, per message id: indexRef.current
  onDoneCalls,     \* per message id: the calls of onDone since the props
                   \* were last set
  propsEpoch       \* per message id: flips whenever the component is
                   \* mounted, unmounted or given other props

\* The state of the calls of parseRisksFromLLMResponse.
extractorVars ==
  <<pc, response, embedded, risks, caught, thrown, result, lastIndex, seen>>

\* The state of the calls of the keyword classifiers.
classifierVars == <<classified, category, likelihood>>

\* The state of the other parts of the program, which a call of
\* parseRisksFromLLMResponse leaves alone.
\* The state of localStorage and of the App.
authVars ==
  <<storedToken, token, isSignup, username, password, authError, loading,
    request, lastAttempt>>

\* The state of the RiskRegister and of the backend behind it.
registerVars ==
  <<registerView, finalizedRisks, serverRisks, registerError, searchTerm,
    filterCategory, filterProgress, lastDelete>>

\* The state of the ControlTable.
tableVars == <<controls, rows, selectAll>>

\* The state of the AnimatedText components, of the map animationStates
\* and of the timers.
animationVars ==
  <<animationStates, timers, mounted, props, displayedText, indexRef,
    onDoneCalls, propsEpoch>>

notExtractor ==
  <<classifierVars, authVars, registerVars, tableVars, animationVars>>
notClassifier ==
  <<extractorVars, authVars, registerVars, tableVars, animationVars>>
notRegister ==
  <<extractorVars, classifierVars, authVars, tableVars, animationVars>>
notAuth ==
  <<extractorVars, classifierVars, registerVars, tableVars, animationVars>>
notTable ==
  <<extractorVars, classifierVars, authVars, registerVars, animationVars>>
notAnimation ==
  <<extractorVars, classifierVars, authVars, registerVars, tableVars>>

vars ==
  <<extractorVars, classifierVars, authVars, registerVars, tableVars,
    animationVars>>

\* The ids of the bot messages on display.
MessageIds == {"m-1", "m-2"}

\* The finalized risks the backend holds at first.
StoredRisks ==
  << [id |-> "fr-1", description |-> "Budget overrun", category |-> "Financial",
      department |-> "Finance", riskOwner |-> "", riskProgress |-> "Identified"],
     [id |-> "fr-2", description |-> "Server outage", category |-> "Technology",
      department |-> "IT", riskOwner |-> "Dana", riskProgress |-> "Mitigated"],
     [id |-> "fr-3", description |-> "Loan default", category |-> "Financial",
      department |-> "", riskOwner |-> "", riskProgress |-> "Mitigated"],
     [id |-> "fr-4", description |-> "Data leak", category |-> "Technology",
      department |-> "Finance", riskOwner |-> "", riskProgress |-> "Identified"] >>

Init ==
  /\ pc = "idle"
  /\ response = ""
  /\ embedded = ""
  /\ risks = <<>>
  /\ caught = "none"
  /\ thrown = "none"
  /\ result = <<>>
  /\ lastIndex = <<0, 0>>
  /\ seen = [set |-> FALSE, input |-> "", out |-> <<>>, threw |-> "none"]
  /\ classified = ""
  /\ category = <<"", "">>
  /\ likelihood = <<"", "">>
  /\ storedToken \in {Null, Str("jwt-1")}
  /\ token = storedToken
  /\ isSignup = FALSE
  /\ username = ""
  /\ password = ""
  /\ authError = ""
  /\ loading = FALSE
  /\ request = "none"
  /\ lastAttempt = "none"
  /\ registerView = "loading"
  /\ finalizedRisks = <<>>
  /\ serverRisks = StoredRisks
  /\ registerError = Null
  /\ searchTerm = ""
  /\ filterCategory = ""
  /\ filterProgress = ""
  /\ lastDelete = [set |-> FALSE, clicked |-> "", index |-> 0, target |-> ""]
  /\ controls = Null
  /\ rows = <<>>
  /\ selectAll = FALSE
  /\ animationStates = [m \in MessageIds |-> Undefined]
  /\ timers = {}
  /\ mounted = [m \in MessageIds |-> FALSE]
  /\ props = [m \in MessageIds |-> [text |-> "", animate |-> FALSE]]
  /\ displayedText = [m \in MessageIds |-> ""]
  /\ indexRef = [m \in MessageIds |-> 0]
  /\ onDoneCalls = [m \in MessageIds |-> 0]
  /\ propsEpoch = [m \in MessageIds |-> FALSE]

\* A caller passes a response: const risks: Risk[] = [].
Call(input) ==
  /\ pc = "idle"
  /\ pc' = "try"
  /\ response' = input.text
  /\ embedded' = input.json
  /\ risks' = <<>>
  /\ caught' = "none"
  /\ thrown' = "none"
  /\ result' = <<>>
  /\ UNCHANGED <<lastIndex, seen>>
  /\ UNCHANGED notExtractor

\* The try block and its catch clause: the try block leaves the list
\* o.made, and the catch clause lets the error escaped go on ("none" when it
\* caught the error or there was none).
JsonTier ==
  LET AfterTry(o, escaped) ==
        /\ risks' = o.made
        /\ caught' = IF escaped = "none" THEN o.error ELSE "none"
        /\ thrown' = escaped
        /\ IF o.returned \/ escaped # "none"
           THEN pc' = "done" /\ result' = IF o.returned THEN o.made ELSE <<>>
           ELSE pc' = "fallback" /\ result' = <<>>
      TryCatch(o) == AfterTry(o, CatchBlock(o.error))
  IN  /\ pc = "try"
      /\ TryCatch(TryBlock(response))
      /\ UNCHANGED <<response, embedded, lastIndex, seen>>
      /\ UNCHANGED notExtractor

\* A section tier that hands over to the keyword-sentence tier whatever its
\* loop has made.
SectionTierThenKeyword ==
  /\ pc = "fallback"
  /\ pc' = "text"
  /\ risks' = SectionForEach(riskSections(response), 1, risks)
  /\ UNCHANGED <<response, embedded, caught, thrown, result, lastIndex, seen>>
  /\ UNCHANGED notExtractor

\* The header split and the loop over the sections, which leaves the list
\* made.
SectionTier ==
  LET AfterSections(made) ==
        /\ risks' = made
        /\ IF Len(made) = 0
           THEN pc' = "text" /\ UNCHANGED result
           ELSE pc' = "done" /\ result' = made
      OverSections(sections) ==
        IF Len(sections) = 0
        THEN pc' = "text" /\ UNCHANGED <<risks, result>>
        ELSE AfterSections(SectionForEach(sections, 1, risks))
  IN  /\ pc = "fallback"
      /\ OverSections(riskSections(response))
      /\ UNCHANGED <<response, embedded, caught, thrown, lastIndex, seen>>
      /\ UNCHANGED notExtractor

\* return extractRisksFromText(response): it returns o.made and leaves the
\* expressions with the lastIndex o.indices.
KeywordTier ==
  LET AfterText(o) ==
        /\ result' = o.made
        /\ lastIndex' = o.indices
  IN  /\ pc = "text"
      /\ AfterText(extractRisksFromText(response, lastIndex))
      /\ pc' = "done"
      /\ UNCHANGED <<response, embedded, risks, caught, thrown, seen>>
      /\ UNCHANGED notExtractor

\* The caller takes the result and the locals of the call are gone; keep
\* tells whether the result is kept to compare a later call with.
Return(keep) ==
  /\ pc = "done"
  /\ pc' = "idle"
  /\ IF keep
     THEN /\ ~seen.set
          /\ seen' = [set |-> TRUE, input |-> response, out |-> result, threw |-> thrown]
     ELSE UNCHANGED seen
  /\ response' = ""
  /\ embedded' = ""
  /\ risks' = <<>>
  /\ caught' = "none"
  /\ thrown' = "none"
  /\ result' = <<>>
  /\ UNCHANGED lastIndex
  /\ UNCHANGED notExtractor

Next ==
  \/ \E input \in Inputs : Call(input)
  \/ JsonTier
  \/ SectionTier
  \/ KeywordTier
  \/ Return(FALSE)

Spec == Init /\ [][Next]_vars

\* The calls of the probe inputs, in any order and number, with one result
\* kept.
NextCalls ==
  \/ \E input \in ProbeInputs : Call(input)
  \/ JsonTier
  \/ SectionTier
  \/ KeywordTier
  \/ \E keep \in BOOLEAN : Return(keep)

SpecCalls == Init /\ [][NextCalls]_vars

(***************************************************************************)
(* Properties of one call, stated on the state in which the call has      *)
(* returned (pc = "done") with the list result.                            *)
(***************************************************************************)

\* The text from the first opening brace of the response to its last
\* closing brace, "" when there is none.
OutermostBlock ==
  LET Between(a, b) == IF a > 0 /\ b > a THEN SubSeq(response, a, b) ELSE ""
  IN  Between(IndexOf(response, "{", 1), LastIndexOf(response, "}", Len(response)))

\* The risks array of the JSON object text: whether text is a JSON object
\* with a risks array, and the entries of the array.
RisksOf(text) ==
  LET Risks(parsed) ==
        IF parsed.ok /\ Prop(parsed.v, "risks").t = "arr"
        THEN [ok |-> TRUE, entries |-> Prop(parsed.v, "risks").v]
        ELSE [ok |-> FALSE, entries |-> <<>>]
  IN  Risks(JSONparse(text))

\* Every entry of the array has a non-empty description and a non-empty
\* category.
AllValid(array) ==
  /\ array.ok
  /\ \A k \in DOMAIN array.entries :
       /\ array.entries[k].t = "obj"
       /\ Prop(array.entries[k], "description").t = "str"
       /\ Prop(array.entries[k], "description").v # ""
       /\ Prop(array.entries[k], "category").t = "str"
       /\ Prop(array.entries[k], "category").v # ""

\* The result holds one record for each entry of the array, in the order
\* of the entries, numbered from 1, with the entry's description and
\* category.
ResultMirrors(array) ==
  /\ Len(result) = Len(array.entries)
  /\ \A k \in DOMAIN result :
       /\ result[k].rec.id = "risk-" \o ToString(k)
       /\ result[k].rec.description = Prop(array.entries[k], "description")
       /\ result[k].rec.category = Prop(array.entries[k], "category")

\* C1: the list a call returns holds the records of exactly one tier: the
\* section-split tier runs only when the JSON tier appended no record, the
\* keyword-sentence tier only when the section-split tier appended none,
\* and no returned list holds records of two tiers.
C1_OneTierOnly ==
  /\ pc = "fallback" => risks = <<>>
  /\ pc = "text" => risks = <<>>
  /\ pc = "done" => Cardinality({result[k].tier : k \in DOMAIN result}) <= 1

\* C2: no call throws: whatever fails inside (JSON.parse on a text that is
\* not JSON, an entry of the risks array that is null), the call ends with a
\* returned list and no error leaves it.
C2_NeverThrows == thrown = "none"

\* A call has returned after its catch clause caught a TypeError.
C2_ReturnedAfterTypeError ==
  pc = "done" /\ caught = "TypeError" /\ Len(result) > 0

\* C3: no two records of a returned list have the same id.
C3_UniqueIds ==
  pc = "done" =>
    \A i \in DOMAIN result : \A j \in DOMAIN result :
      i # j => result[i].rec.id # result[j].rec.id

\* C4: the ids of a returned list of n records are risk-1 .. risk-n, in the
\* order of the list.
C4_DenseIds ==
  pc = "done" =>
    \A k \in DOMAIN result : result[k].rec.id = "risk-" \o ToString(k)

\* C5: the description of every returned record is a string of at least 10
\* characters.
C5_DescriptionAtLeastTen ==
  pc = "done" =>
    \A k \in DOMAIN result :
      /\ result[k].rec.description.t = "str"
      /\ Len(result[k].rec.description.v) >= 10

\* C6: the category of every returned record is a non-empty string.
C6_CategoryNonEmpty ==
  pc = "done" =>
    \A k \in DOMAIN result :
      /\ result[k].rec.category.t = "str"
      /\ result[k].rec.category.v # ""

\* C7 as stated: when the response holds a JSON object whose risks array has
\* n entries, each with a non-empty description and category, the call
\* returns n records that mirror the entries in their order, whatever
\* surrounds the object.
C7_ValidJsonMirrored ==
  LET Mirrored(array) == AllValid(array) => ResultMirrors(array)
  IN  pc = "done" /\ embedded # "" => Mirrored(RisksOf(embedded))

\* C7 amended: the same, for the responses in which the block from the first
\* opening brace to the last closing brace is that JSON object and whose
\* risks array has at least one entry.
C7_ValidJsonBlockMirrored ==
  LET Mirrored(array) ==
        AllValid(array) /\ Len(array.entries) >= 1 => ResultMirrors(array)
  IN  pc = "done" /\ embedded # "" /\ OutermostBlock = embedded
        => Mirrored(RisksOf(embedded))

\* A call has returned two records for a JSON object of two valid entries
\* that stands between prose.
C7_TwoEntriesInProse ==
  LET TwoValid(array) == AllValid(array) /\ Len(array.entries) = 2
  IN  /\ pc = "done"
      /\ embedded # ""
      /\ OutermostBlock = embedded
      /\ response # embedded
      /\ TwoValid(RisksOf(embedded))
      /\ Len(result) = 2
      /\ result[1].rec.description # result[2].rec.description

\* The fields of the record rec that the JSON tier made from entry: the
\* entry's own value where it has one, else the default.
JsonFieldsOf(entry, rec) ==
  /\ rec.likelihood =
       IF Truthy(Prop(entry, "likelihood"))
       THEN Prop(entry, "likelihood") ELSE Str("Medium")
  /\ rec.impact =
       IF Truthy(Prop(entry, "impact")) THEN Prop(entry, "impact") ELSE Str("Medium")
  /\ rec.riskProgress =
       IF Truthy(Prop(entry, "risk_progress"))
       THEN Prop(entry, "risk_progress") ELSE Str("Identified")
  /\ rec.treatmentStrategy =
       IF Truthy(Prop(entry, "treatment_strategy"))
       THEN Prop(entry, "treatment_strategy")
       ELSE IF Truthy(Prop(entry, "treatmentStrategy"))
       THEN Prop(entry, "treatmentStrategy")
       ELSE Str("Implement appropriate risk mitigation strategies.")
  /\ rec.description = Prop(entry, "description")
  /\ rec.category = Prop(entry, "category")

\* C8: a record of the JSON tier has likelihood (impact) Medium when the
\* entry's likelihood (impact) is missing or falsy, riskProgress Identified
\* when risk_progress is missing, the fixed sentence as treatment strategy
\* when the entry names none, and the entry's own value wherever the entry
\* has one.
C8_JsonDefaults ==
  LET Defaulted(array) ==
        \A k \in DOMAIN result :
          result[k].tier = "json" =>
            JsonFieldsOf(array.entries[result[k].src], result[k].rec)
  IN  pc = "done" /\ (\E k \in DOMAIN result : result[k].tier = "json")
        => Defaulted(RisksOf(OutermostBlock))

\* A call has returned a record whose entry names likelihood, impact,
\* treatment strategy and progress, and a record whose entry has a falsy
\* likelihood and neither impact nor progress.
C8_CopiedAndDefaulted ==
  LET SecondFalsy(array) ==
        /\ Prop(array.entries[2], "likelihood") = Num("0")
        /\ Prop(array.entries[2], "impact") = Undefined
        /\ Prop(array.entries[2], "risk_progress") = Undefined
  IN  /\ pc = "done"
      /\ Len(result) = 2
      /\ result[1].tier = "json"
      /\ result[1].rec.likelihood = Str("High")
      /\ result[1].rec.impact = Str("Low")
      /\ result[1].rec.riskProgress = Str("Mitigated")
      /\ result[1].rec.treatmentStrategy = Str("Replace it")
      /\ result[2].tier = "json"
      /\ result[2].rec.likelihood = Str("Medium")
      /\ result[2].rec.impact = Str("Medium")
      /\ result[2].rec.riskProgress = Str("Identified")
      /\ SecondFalsy(RisksOf(OutermostBlock))

\* C9: when the JSON tier made a record from a response that also holds
\* prose, the returned list holds the records of the JSON tier and nothing
\* else.
C9_JsonTierOnly ==
  pc = "done" /\ response # embedded
              /\ (\E k \in DOMAIN risks : risks[k].tier = "json")
    => /\ result = risks
       /\ \A k \in DOMAIN result : result[k].tier = "json"

\* C10: two calls with the same response return equal lists, whatever calls
\* were made between them.
C10_SameInputSameOutput ==
  pc = "done" /\ seen.set /\ seen.input = response
    => result = seen.out /\ thrown = seen.threw

\* A call that ended in the keyword-sentence tier has returned for a
\* response that an earlier call was made with, and has left the first
\* expression with a lastIndex other than 0.
C10_KeywordTierCalledAgain ==
  /\ pc = "done"
  /\ seen.set
  /\ seen.input = response
  /\ Len(result) > 0
  /\ result[1].tier = "text"
  /\ lastIndex[1] # 0

\* The level names the code itself writes: the levels of the keyword tables
\* and the default.
LevelNames ==
  {LikelihoodTable[j][2] : j \in DOMAIN LikelihoodTable}
    \cup {ImpactTable[j][2] : j \in DOMAIN ImpactTable} \cup {"Medium"}

\* C11: the likelihood and the impact of every returned record, of any
\* tier, are level names of the fixed vocabulary: a source value outside it
\* (a string or number of a JSON entry, a differently-cased level of a
\* section) is replaced by the default and not copied through.
C11_LevelVocabulary ==
  pc = "done" =>
    \A k \in DOMAIN result :
      /\ result[k].rec.likelihood \in {Str(l) : l \in LevelNames}
      /\ result[k].rec.impact \in {Str(l) : l \in LevelNames}

\* C12: for the single-line response whose labelled fields follow each
\* other, each value ended by a period, the JSON tier fails and the
\* section-split tier returns one record, with category Technology,
\* likelihood High and impact High.
C12_SingleLineSection ==
  pc = "done"
    /\ response = "1. Risk Description: Aging server hardware may fail. Category: Technology. Likelihood: High. Impact: High. Treatment Strategy: Replace hardware within 6 months."
    => /\ Len(result) = 1
       /\ result[1].tier = "section"
       /\ result[1].rec.category = Str("Technology")
       /\ result[1].rec.likelihood = Str("High")
       /\ result[1].rec.impact = Str("High")

\* The text holds no opening brace and no Risk header.
PlainProse(text) ==
  /\ IndexOf(text, "{", 1) = 0
  /\ Len(split(text, "header")) = 1

\* C13: a response without a JSON object and without Risk headers, all of
\* whose sentences are shorter than 20 characters, yields the empty list.
C13_ShortSentencesNothing ==
  LET AllShort(pieces) == \A k \in DOMAIN pieces : Len(trim(pieces[k])) < 20
  IN  pc = "done" /\ PlainProse(response)
                  /\ AllShort(split(response, "sentence"))
        => result = <<>>

\* The words of the field labels of parseRiskSection.
LabelWords ==
  {"description", "category", "likelihood", "impact", "treatment", "strategy"}

\* C14: a response that is one prose sentence of more than 20 characters,
\* without JSON object, Risk header or field label, and with a keyword of
\* the two families, is handled by the keyword-sentence tier: one record is
\* returned, with a category of the keyword table and the fixed generic
\* sentence as treatment strategy.
C14_KeywordTierProse ==
  LET OneSentence(pieces) ==
        /\ Len(pieces) = 2
        /\ Len(trim(pieces[1])) > 20
        /\ pieces[2] = ""
        /\ SomeIndicator(trim(pieces[1]), <<0, 0>>).found
        /\ \A w \in LabelWords : ~includes(toLowerCase(pieces[1]), w)
  IN  pc = "done" /\ PlainProse(response)
                  /\ OneSentence(split(response, "sentence"))
        => /\ Len(result) = 1
           /\ result[1].tier = "text"
           /\ result[1].rec.category.v
                \in {CategoryTable[j][2] : j \in DOMAIN CategoryTable}
           /\ result[1].rec.treatmentStrategy =
                Str("Implement appropriate controls and monitoring based on risk assessment.")

\* The positions of the entries of the array that have a truthy description
\* and a truthy category.
TruthyEntries(array) ==
  {k \in DOMAIN array.entries :
     /\ Truthy(Prop(array.entries[k], "description"))
     /\ Truthy(Prop(array.entries[k], "category"))}

\* C15: an entry of the risks array without a truthy description or
\* category (an empty string, a missing field, a value that is no object, a
\* null entry) is skipped: when the array has an entry with both, the call
\* returns the records of the JSON tier for exactly the entries with both,
\* in their order.
C15_InvalidEntriesSkipped ==
  LET Skipped(kept) ==
        /\ Len(result) = Cardinality(kept)
        /\ \A k \in DOMAIN result : result[k].tier = "json" /\ result[k].src \in kept
        /\ \A i \in DOMAIN result : \A j \in DOMAIN result :
             i < j => result[i].src < result[j].src
      OfArray(array) ==
        array.ok /\ TruthyEntries(array) # {} => Skipped(TruthyEntries(array))
  IN  pc = "done" => OfArray(RisksOf(OutermostBlock))

\* What the section-split tier and the keyword-sentence tier return for the
\* text when they start from an empty list.
TextTiersAlone(text) ==
  LET Keyword == extractRisksFromText(text, <<0, 0>>).made
      OrKeyword(made) == IF Len(made) = 0 THEN Keyword ELSE made
      OfSections(sections) ==
        IF Len(sections) = 0 THEN Keyword
        ELSE OrKeyword(SectionForEach(sections, 1, <<>>))
  IN  OfSections(riskSections(text))

\* C16: when the block from the first opening brace to the last closing
\* brace is not JSON, or is a JSON object without an array named risks, the
\* JSON tier adds nothing: the call returns what the section-split and
\* keyword-sentence tiers return for the same text, and throws nothing.
C16_FailedJsonFallsThrough ==
  LET NoRisksArray(array) ==
        ~array.ok => result = TextTiersAlone(response) /\ thrown = "none"
  IN  pc = "done" /\ OutermostBlock # "" => NoRisksArray(RisksOf(OutermostBlock))

\* A call has returned a record of a text tier after JSON.parse threw on
\* the brace block of the response.
C16_FellThroughAfterSyntaxError ==
  /\ pc = "done"
  /\ OutermostBlock # ""
  /\ caught = "SyntaxError"
  /\ Len(result) > 0
  /\ result[1].tier \in {"section", "text"}

(***************************************************************************)
(* Properties of the text tiers.  A call whose list risks is empty when it *)
(* has returned ended in the keyword-sentence tier, which returns a list   *)
(* of its own.                                                             *)
(***************************************************************************)

\* The sentence holds a keyword of one of the two families, in any case.
HasKeyword(sentence) ==
  \E j \in DOMAIN IndicatorWords : \E w \in Range(IndicatorWords[j]) :
    includes(toLowerCase(sentence), w)

\* The positions of the sentences that hold a keyword.
KeywordSentences(sentences) ==
  {k \in DOMAIN sentences : HasKeyword(sentences[k])}

\* C17: in the keyword-sentence tier every sentence that passes the length
\* filter and holds a keyword of either family yields a record, as long as
\* fewer than 10 sentences with a keyword stand before it, whatever
\* sentences were tested before it.
C17_EveryKeywordSentence ==
  LET Yielded(hits) ==
        \A k \in hits :
          Cardinality({j \in hits : j < k}) < 10
            => \E r \in DOMAIN result : result[r].src = k
      OfSentences(sentences) == Yielded(KeywordSentences(sentences))
  IN  pc = "done" /\ risks = <<>> => OfSentences(Sentences(response))

\* C18: the keyword-sentence tier returns at most 10 records: the records
\* of the first sentences with a keyword, in the order of the text, with
\* the ids risk-1 .. risk-k, and nothing for the sentences after the tenth.
C18_FirstTenInOrder ==
  LET FirstOnes(hits) ==
        /\ Len(result) <= 10
        /\ Len(result) = IF Cardinality(hits) < 10 THEN Cardinality(hits) ELSE 10
        /\ \A r \in DOMAIN result :
             /\ result[r].rec.id = "risk-" \o ToString(r)
             /\ result[r].src \in hits
             /\ Cardinality({j \in hits : j < result[r].src}) = r - 1
      OfSentences(sentences) == FirstOnes(KeywordSentences(sentences))
  IN  pc = "done" /\ risks = <<>> => OfSentences(Sentences(response))

\* C19: the keyword-sentence tier drops exactly the sentences whose trimmed
\* length is under 20: every record comes from a sentence of 20 characters
\* or more, and the first sentence of 20 characters or more that holds a
\* keyword yields a record.
C19_TwentyIsEnough ==
  LET Considered(pieces) ==
        {k \in DOMAIN pieces : Len(trim(pieces[k])) >= 20}
      From(pieces, k) ==
        \E r \in DOMAIN result :
          result[r].rec.description = Str(cleanText(trim(pieces[k])))
      FirstHit(pieces, hits) ==
        \A k \in hits : (\A j \in hits : k <= j) => From(pieces, k)
      OfPieces(pieces) ==
        /\ \A r \in DOMAIN result : \E k \in Considered(pieces) :
             result[r].rec.description = Str(cleanText(trim(pieces[k])))
        /\ FirstHit(pieces, {k \in Considered(pieces) : HasKeyword(pieces[k])})
  IN  pc = "done" /\ risks = <<>> => OfPieces(split(response, "sentence"))

\* C20: the section-split tier makes a record of a section exactly when the
\* description the section resolves to has at least 10 characters once
\* cleanText has taken off a leading bullet, number and colon or period.
C20_RejectedAfterCleanup ==
  LET Cleaned(section) ==
        cleanText(SectionDescription(section, toLowerCase(section)))
      OfSections(sections) ==
        \A k \in DOMAIN sections :
          (\E r \in DOMAIN result : result[r].tier = "section" /\ result[r].src = k)
            <=> Len(Cleaned(trim(sections[k]))) >= 10
  IN  pc = "done" /\ (\E r \in DOMAIN result : result[r].tier = "section")
        => OfSections(riskSections(response))

\* The positions of the sections that parseRiskSection does not reject.
AcceptedSections(sections) ==
  LET Resolved(section) == SectionDescription(section, toLowerCase(section))
  IN  {k \in DOMAIN sections : ~SectionRejected(Resolved(trim(sections[k])))}

\* C21: when the response holds no brace block, the call returns what the
\* keyword-sentence tier makes of the whole response if the header split
\* leaves no section or every section is rejected, and the records of the
\* accepted sections alone, none of the keyword-sentence tier, if a section
\* is accepted.
C21_KeywordTierOnlyAfterNoSection ==
  LET Decided(accepted) ==
        IF accepted = {}
        THEN result = extractRisksFromText(response, <<0, 0>>).made
        ELSE /\ Len(result) = Cardinality(accepted)
             /\ \A r \in DOMAIN result :
                  result[r].tier = "section" /\ result[r].src \in accepted
  IN  pc = "done" /\ OutermostBlock = ""
        => Decided(AcceptedSections(riskSections(response)))

\* A call has returned records of the keyword-sentence tier for a response
\* without brace block whose sections were all rejected.
C21_AllSectionsRejected ==
  /\ pc = "done"
  /\ OutermostBlock = ""
  /\ Len(riskSections(response)) >= 1
  /\ AcceptedSections(riskSections(response)) = {}
  /\ Len(result) >= 2
  /\ result[1].tier = "text"

\* A level word follows the label somewhere in the lower-cased text, after
\* white space, at most one colon or period, and white space.
LevelAfter(low, label) ==
  LET LevelAt(c) == \E w \in {"high", "medium", "low"} : LitAt(low, c, w)
      AfterColon(a) ==
        LevelAt(SkipSpace(low, IF Ch(low, a) \in {":", "."} THEN a + 1 ELSE a))
  IN  \E i \in 1..Len(low) :
        LitAt(low, i, label) /\ AfterColon(SkipSpace(low, i + Len(label)))

\* The fields of the record rec that parseRiskSection made of the section
\* (low is its lower-cased copy, paragraphs its split at blank lines) are
\* the defaults wherever the section has no label for them.
SectionDefaults(section, low, paragraphs, rec) ==
  /\ ~includes(low, "description")
       => rec.description = Str(cleanText(paragraphs[1]))
  /\ ~includes(low, "treatment") /\ ~includes(low, "strategy")
       => rec.treatmentStrategy = Str(cleanText(paragraphs[Len(paragraphs)]))
  /\ ~includes(low, "category") => rec.category = Str("Operational Risks")
  /\ ~LevelAfter(low, "likelihood") => rec.likelihood = Str("Medium")
  /\ ~LevelAfter(low, "impact") => rec.impact = Str("Medium")

\* C22: a record of the section-split tier has the first paragraph of its
\* section as description when the section has no Description label, the
\* last paragraph as treatment strategy when it has no Treatment or Strategy
\* label, the category Operational Risks when it has no Category label, and
\* Medium as likelihood (impact) when no Likelihood (Impact) label is
\* followed by High, Medium or Low in any case.
C22_SectionDefaults ==
  LET OfSection(section, rec) ==
        SectionDefaults(section, toLowerCase(section), split(section, "paragraph"), rec)
      OfSections(sections) ==
        \A r \in DOMAIN result :
          result[r].tier = "section"
            => OfSection(trim(sections[result[r].src]), result[r].rec)
  IN  pc = "done" /\ (\E r \in DOMAIN result : result[r].tier = "section")
        => OfSections(riskSections(response))

\* A call has returned a record of a section of two paragraphs without
\* Description, Category or Treatment label, whose Likelihood and Impact
\* labels are followed by other words than the three levels.
C22_UnlabelledSection ==
  /\ pc = "done"
  /\ Len(result) = 2
  /\ result[2].tier = "section"
  /\ includes(response, "Likelihood: Very high\nImpact: severe")
  /\ result[2].rec.description =
       Str("Unpatched servers in the plant\nLikelihood: Very high\nImpact: severe")
  /\ result[2].rec.treatmentStrategy = Str("Patch them monthly")
  /\ result[2].rec.category = Str("Operational Risks")
  /\ result[2].rec.likelihood = Str("Medium")
  /\ result[2].rec.impact = Str("Medium")

\* The text that follows the Treatment label of the section, which stands
\* at position i of the lower-cased copy low: after the label, with the word
\* Strategy and the colon when they follow, up to the end of the line, the
\* next label of another field or the end of the section.
TreatmentText(section, low, i) ==
  LET Until(c, e) == trim(Sub(section, c, e))
      Value(c) ==
        Until(c, FirstWhere(c, Len(low),
                            LAMBDA e : \/ Ch(low, e) = "\n"
                                       \/ \E w \in {"description", "category",
                                                     "likelihood", "impact"} :
                                            LitAt(low, e, w)))
      AfterColon(a) == Value(SkipSpace(low, IF Ch(low, a) = ":" THEN a + 1 ELSE a))
      AfterWord(a) == AfterColon(IF LitAt(low, a, " strategy") THEN a + 9 ELSE a)
  IN  AfterWord(i + 9)

\* C23: the treatment strategy of a record of the section-split tier whose
\* section has a Treatment label is the text between that label, with its
\* colon, and the next label or the end of the line: it holds neither the
\* word Strategy of the label nor ends at the word risk.
C23_TreatmentBetweenLabels ==
  LET Labelled(section, low, i, rec) ==
        i <= Len(low) /\ ~includes(Sub(low, 1, i), "strategy")
          => rec.treatmentStrategy = Str(cleanText(TreatmentText(section, low, i)))
      Lowered(section, low, rec) ==
        Labelled(section, low,
                 FirstWhere(1, Len(low), LAMBDA i : LitAt(low, i, "treatment")), rec)
      OfSections(sections) ==
        \A r \in DOMAIN result :
          result[r].tier = "section"
            => Lowered(trim(sections[result[r].src]),
                       toLowerCase(trim(sections[result[r].src])), result[r].rec)
  IN  pc = "done" /\ (\E r \in DOMAIN result : result[r].tier = "section")
        => OfSections(riskSections(response))

(***************************************************************************)
(* The keyword classifiers, called on their own.  The file holds a later   *)
(* revision of determineCategory and determineLikelihood with other        *)
(* keyword tables; both revisions are applied to every text.               *)
(***************************************************************************)
CategoryTableRev2 ==
  << <<{"strategic", "business", "market", "long-term"}, "Strategic Risk">>,
     <<{"operational", "process", "system", "day-to-day"}, "Operational Risk">>,
     <<{"financial", "money", "cost", "revenue", "cash flow"}, "Financial Risk">>,
     <<{"legal", "compliance", "regulation", "law", "regulatory"}, "Compliance Risk">>,
     <<{"reputation", "brand", "public", "image"}, "Reputational Risk">>,
     <<{"safety", "health", "accident", "injury"}, "Health and Safety Risk">>,
     <<{"environmental", "environment", "pollution", "sustainability"},
       "Environmental Risk">>,
     <<{"technology", "cyber", "security", "data breach", "it"}, "Technology Risk">> >>

LikelihoodTableRev2 ==
  << <<{"critical", "extremely likely", "certain", "very likely"}, "Very Likely">>,
     <<{"severe", "likely", "frequent", "expected"}, "Likely">>,
     <<{"high", "probable", "possible", "could occur"}, "Possible">>,
     <<{"low", "unlikely", "rare", "may occur"}, "Unlikely">>,
     <<{"very unlikely", "exceptional", "minimal chance"}, "Rare">> >>

determineCategoryRev2(text) == Lookup(CategoryTableRev2, text, "Operational Risk")
determineLikelihoodRev2(text) == Lookup(LikelihoodTableRev2, text, "Possible")

\* The texts the classifiers are called with: two subjects, each possibly
\* a category keyword, and possibly a likelihood cue.
SubjectWords ==
  {"plan", "Market Share", "economic", "Revenue", "law", "System", "brand", "cyber"}

LikelihoodCues ==
  {"fine", "unlikely", "very unlikely", "likely", "Certain", "rare", "exceptional"}

ClassifierTexts ==
  {"Issue " \o a \o " " \o b \o " seems " \o c :
     a \in SubjectWords, b \in SubjectWords, c \in LikelihoodCues}

\* determineCategory(text) and determineLikelihood(text), in both revisions.
Classify(text) ==
  /\ classified = ""
  /\ classified' = text
  /\ category' = <<determineCategory(text), determineCategoryRev2(text)>>
  /\ likelihood' = <<determineLikelihood(text), determineLikelihoodRev2(text)>>
  /\ UNCHANGED notClassifier

\* The caller has used what the classifiers returned.
Classified ==
  /\ classified # ""
  /\ classified' = ""
  /\ category' = <<"", "">>
  /\ likelihood' = <<"", "">>
  /\ UNCHANGED notClassifier

NextClassify ==
  \/ \E text \in ClassifierTexts : Classify(text)
  \/ Classified

SpecClassify == Init /\ [][NextClassify]_vars

\* got is the category of the first entry of the table that has a keyword
\* in the lower-cased text low, the fallback when no entry has one.
FirstEntryWithKeyword(table, low, fallback, got) ==
  LET Hit(j) == \E w \in table[j][1] : includes(low, w)
  IN  IF \E j \in DOMAIN table : Hit(j)
      THEN \E j \in DOMAIN table :
             /\ Hit(j)
             /\ \A i \in 1..(j - 1) : ~Hit(i)
             /\ got = table[j][2]
      ELSE got = fallback

\* C24: determineCategory returns the category of the first entry, in the
\* fixed order of its table, that has a keyword occurring in the lower-cased
\* text, and the fallback (Operational in the first revision, Operational
\* Risk in the second) when no keyword of any entry occurs.
C24_FirstCategoryInOrder ==
  classified # "" =>
    /\ FirstEntryWithKeyword(CategoryTable, toLowerCase(classified),
                             "Operational", category[1])
    /\ FirstEntryWithKeyword(CategoryTableRev2, toLowerCase(classified),
                             "Operational Risk", category[2])

\* A text with keywords of two entries has been classified by the earlier
\* entry in each revision: Competition before Technology, and Strategic
\* Risk before Technology Risk.
C24_EarlierEntryWins ==
  /\ classified = "Issue cyber Market Share seems fine"
  /\ category = <<"Competition", "Strategic Risk">>

\* The text ends with the word seems and the cue.
EndsWithCue(text, cue) ==
  /\ Len(text) >= Len(cue) + 7
  /\ SubSeq(text, Len(text) - Len(cue) - 6, Len(text)) = " seems " \o cue

\* C25: a text whose only likelihood cue is the word unlikely is classified
\* Low by the first revision and Unlikely by the second, and one whose only
\* cue is very unlikely is classified Low and Rare: no earlier branch takes
\* the text through a keyword that is a part of the cue.
C25_UnlikelyIsLow ==
  /\ EndsWithCue(classified, "unlikely")
       /\ ~EndsWithCue(classified, "very unlikely")
       => likelihood = <<"Low", "Unlikely">>
  /\ EndsWithCue(classified, "very unlikely") => likelihood = <<"Low", "Rare">>

\* The records of the section-split tier in the returned list are in the
\* order of their sections, each has the id risk-k and the description of
\* the k-th of the pieces of the header split that are not blank, and they
\* are no more than the pieces of the split.
SectionIdsByPosition(pieces) ==
  LET NonBlank(kept) ==
        \A r \in DOMAIN result :
          result[r].tier = "section" =>
            /\ result[r].src \in DOMAIN kept
            /\ result[r].rec.id = "risk-" \o ToString(result[r].src)
            /\ result[r].rec.description =
                 Str(cleanText(SectionDescription(
                       trim(kept[result[r].src]),
                       toLowerCase(trim(kept[result[r].src])))))
  IN  /\ NonBlank(SelectSeq(pieces, LAMBDA x : trim(x) # ""))
      /\ \A q \in DOMAIN result : \A r \in DOMAIN result :
           q < r /\ result[q].tier = "section" /\ result[r].tier = "section"
             => result[q].src < result[r].src
      /\ Cardinality({r \in DOMAIN result : result[r].tier = "section"})
           <= Len(pieces)

\* The text before the first header, preamble, has a first paragraph of at
\* least 10 characters.
PreambleLongEnough(preamble) ==
  /\ trim(preamble) # ""
  /\ Len(split(trim(preamble), "paragraph")[1]) >= 10

\* The first record of the section-split tier in the returned list is the
\* one of the first piece.
PreambleRecord ==
  \E r \in DOMAIN result : result[r].tier = "section" /\ result[r].src = 1

\* C26 as stated: the records of the section-split tier are in section
\* order with the ids of their positions among the pieces that are not
\* blank, no more than the header matches plus one, and the text before the
\* first header yields the record risk-1 whenever its first paragraph has
\* at least 10 characters.
C26_SectionIdsByPosition ==
  LET OfPieces(pieces) ==
        /\ SectionIdsByPosition(pieces)
        /\ PreambleLongEnough(pieces[1]) => PreambleRecord
  IN  pc = "done" /\ (\E r \in DOMAIN result : result[r].tier = "section")
        => OfPieces(split(response, "header"))

\* C26 amended: the same, the text before the first header yielding the
\* record risk-1 whenever it holds no Description label and its first
\* paragraph has at least 10 characters.
C26_SectionIdsByPositionUnlabelled ==
  LET OfPieces(pieces) ==
        /\ SectionIdsByPosition(pieces)
        /\ PreambleLongEnough(pieces[1])
             /\ ~includes(toLowerCase(pieces[1]), "description")
             => PreambleRecord
  IN  pc = "done" /\ (\E r \in DOMAIN result : result[r].tier = "section")
        => OfPieces(split(response, "header"))

\* A call has returned three records of the section-split tier for a
\* response of two headers: one of the text before the first header and one
\* of each section.
C26_PreambleAndTwoSections ==
  /\ pc = "done"
  /\ Len(split(response, "header")) = 3
  /\ Len(result) = 3
  /\ \A r \in DOMAIN result : result[r].tier = "section"
  /\ result[1].rec.description = Str("Intro text here.")
  /\ result[3].rec.id = "risk-3"

(***************************************************************************)
(* RiskRegister: the list of finalized risks, its search and filters, and  *)
(* the Delete button of a card.                                            *)
(***************************************************************************)

\* The predicate of finalizedRisks.filter.
MatchesFilters(risk, term, categoryFilter, progressFilter) ==
  LET MatchesSearch(lowTerm) ==
        \/ includes(toLowerCase(risk.description), lowTerm)
        \/ includes(toLowerCase(risk.category), lowTerm)
        \/ risk.department # "" /\ includes(toLowerCase(risk.department), lowTerm)
        \/ risk.riskOwner # "" /\ includes(toLowerCase(risk.riskOwner), lowTerm)
  IN  /\ MatchesSearch(toLowerCase(term))
      /\ categoryFilter = "" \/ risk.category = categoryFilter
      /\ progressFilter = "" \/ risk.riskProgress = progressFilter

\* The cards on display.
filteredRisks ==
  SelectSeq(finalizedRisks,
            LAMBDA risk : MatchesFilters(risk, searchTerm, filterCategory, filterProgress))

\* The backend removes the risk at the 0-based index of its list.
ServerDelete(list, index) ==
  [k \in 1..(Len(list) - 1) |-> IF k <= index THEN list[k] ELSE list[k + 1]]

\* fetchFinalizedRisks, on mount and on Retry: ok tells whether the backend
\* answers with its list.  isLoading is true while the view is "loading".
fetchFinalizedRisks(ok) ==
  /\ registerView = "loading" \/ (registerView = "open" /\ registerError # Null)
  /\ registerView' = "open"
  /\ IF storedToken = Null
     THEN /\ registerError' = Str("No authentication token found")
          /\ UNCHANGED finalizedRisks
     ELSE IF ok
     THEN /\ registerError' = Null
          /\ finalizedRisks' = serverRisks
     ELSE /\ registerError' = Str("Failed to fetch finalized risks")
          /\ UNCHANGED finalizedRisks
  /\ UNCHANGED <<serverRisks, searchTerm, filterCategory, filterProgress, lastDelete>>
  /\ UNCHANGED notRegister

\* The controls are on display.
ControlsShown == registerView = "open" /\ registerError = Null

setSearchTerm(value) ==
  /\ ControlsShown
  /\ searchTerm' = value
  /\ UNCHANGED <<registerView, finalizedRisks, serverRisks, registerError,
                 filterCategory, filterProgress, lastDelete>>
  /\ UNCHANGED notRegister

setFilterCategory(value) ==
  /\ ControlsShown
  /\ filterCategory' = value
  /\ UNCHANGED <<registerView, finalizedRisks, serverRisks, registerError,
                 searchTerm, filterProgress, lastDelete>>
  /\ UNCHANGED notRegister

setFilterProgress(value) ==
  /\ ControlsShown
  /\ filterProgress' = value
  /\ UNCHANGED <<registerView, finalizedRisks, serverRisks, registerError,
                 searchTerm, filterCategory, lastDelete>>
  /\ UNCHANGED notRegister

\* A click on Delete of the card at the 0-based position index of the cards
\* on display: deleteRisk(index).  outcome is "ok" when the backend deletes
\* and answers with the risks that remain, "failed" when it answers without
\* success, "error" when fetch throws.
deleteRisk(index, outcome) ==
  LET Answered(remaining) ==
        IF outcome = "ok"
        THEN /\ serverRisks' = remaining
             /\ finalizedRisks' = remaining
             /\ registerError' = IF Len(remaining) > 0 THEN Null ELSE registerError
             /\ registerView' = IF Len(remaining) > 0 THEN "open" ELSE "closing"
        ELSE /\ registerError' =
                  IF outcome = "failed" THEN Str("Failed to delete risk")
                  ELSE Str("An error occurred while deleting risk")
             /\ UNCHANGED <<serverRisks, finalizedRisks, registerView>>
  IN  /\ ControlsShown
      /\ index \in 0..(Len(filteredRisks) - 1)
      /\ lastDelete' = [set |-> TRUE, clicked |-> filteredRisks[index + 1].id,
                        index |-> index, target |-> finalizedRisks[index + 1].id]
      /\ IF storedToken = Null
         THEN /\ registerError' = Str("No authentication token found")
              /\ UNCHANGED <<serverRisks, finalizedRisks, registerView>>
         ELSE Answered(ServerDelete(serverRisks, index))
      /\ UNCHANGED <<searchTerm, filterCategory, filterProgress>>
      /\ UNCHANGED notRegister

\* The timer set after the last risk was deleted calls onClose.
onClose ==
  /\ registerView = "closing"
  /\ registerView' = "closed"
  /\ UNCHANGED <<finalizedRisks, serverRisks, registerError, searchTerm,
                 filterCategory, filterProgress, lastDelete>>
  /\ UNCHANGED notRegister

\* What a user types and selects.
SearchTerms == {"", "fin", "SERVER"}
CategoryOptions == {"", "Financial", "Technology"}
ProgressOptions == {"", "Identified", "Mitigated"}

NextRegister ==
  \/ \E ok \in BOOLEAN : fetchFinalizedRisks(ok)
  \/ \E value \in SearchTerms : setSearchTerm(value)
  \/ \E value \in CategoryOptions : setFilterCategory(value)
  \/ \E value \in ProgressOptions : setFilterProgress(value)
  \/ \E index \in 0..(Len(StoredRisks) - 1) :
       \E outcome \in {"ok", "failed", "error"} : deleteRisk(index, outcome)
  \/ onClose

SpecRegister == Init /\ [][NextRegister]_vars

\* C27: whatever the search term and the filters are, the index that a
\* click on Delete of a card sends is the index that the risk of the card
\* has in the whole list finalizedRisks, so that the risk deleted is the one
\* whose card was clicked.
C27_DeleteHitsClickedCard ==
  lastDelete.set => lastDelete.target = lastDelete.clicked

\* ---------------------------------------------------------------------
\* ControlTable: the table of controls with its checkboxes.

\* The ids of the controls a parent passes.
ControlIds == <<"c-1", "c-2">>

\* What a control holds in isSelected when it is passed: the field is
\* optional.
SelectionsPassed == {Undefined, Bool(TRUE), Bool(FALSE)}

\* The lists of controls a parent passes: one control per id, in order.
ControlLists ==
  { [k \in DOMAIN ControlIds |->
       [id |-> ControlIds[k], isSelected |-> sel[k], status |-> Undefined]] :
    sel \in [DOMAIN ControlIds -> SelectionsPassed] }

\* normalizedControl: isSelected: !!c.isSelected, status: c.status ||
\* "Planned".
normalizedControl(c) ==
  [c EXCEPT !.isSelected = Bool(Truthy(c.isSelected)),
            !.status = OrElse(c.status, Str("Planned"))]

\* rows.map((r) => (r.id === id ? { ...r, [field]: value } : r)).
WithField(list, id, field, value) ==
  [k \in DOMAIN list |->
     IF list[k].id = id THEN [list[k] EXCEPT ![field] = value] ELSE list[k]]

\* rows.every((r) => r.isSelected).
EveryRowSelected(list) == \A k \in DOMAIN list : Truthy(list[k].isSelected)

\* useEffect(..., [controls]): the component is rendered with a list of
\* controls and the effect stores the normalized rows.  selectAll is left
\* as it is.
ControlTableEffect(list) ==
  /\ controls' = list
  /\ rows' = [k \in DOMAIN list |-> normalizedControl(list[k])]
  /\ UNCHANGED selectAll
  /\ UNCHANGED notTable

\* toggleAll: the header checkbox.
toggleAll ==
  /\ controls # Null
  /\ selectAll' = ~selectAll
  /\ rows' = [k \in DOMAIN rows |-> [rows[k] EXCEPT !.isSelected = Bool(~selectAll)]]
  /\ UNCHANGED controls
  /\ UNCHANGED notTable

\* updateField(id, field, value): a checkbox or an input of one row.
updateField(id, field, value) ==
  /\ controls # Null
  /\ rows' = WithField(rows, id, field, value)
  /\ selectAll' = EveryRowSelected(WithField(rows, id, field, value))
  /\ UNCHANGED controls
  /\ UNCHANGED notTable

\* The values the inputs of a row pass to updateField.
FieldValues ==
  [isSelected |-> {Bool(TRUE), Bool(FALSE)},
   status |-> {Str("Planned"), Str("In Progress"), Str("Implemented")}]

NextTable ==
  \/ \E list \in ControlLists : ControlTableEffect(list)
  \/ toggleAll
  \/ \E k \in DOMAIN rows : \E field \in DOMAIN FieldValues :
       \E value \in FieldValues[field] : updateField(rows[k].id, field, value)

SpecTable == Init /\ [][NextTable]_vars

\* C28: once the controls are loaded, the flag selectAll is true exactly
\* when every row has isSelected true, whatever sequence of toggleAll and
\* updateField follows.
C28_SelectAllMatchesRows ==
  controls # Null => (selectAll <=> EveryRowSelected(rows))

\* ---------------------------------------------------------------------
\* App and Auth: the token in the component and in localStorage.

\* localStorage.setItem("token", value): the value is stored as a string.
setItem(value) == IF value.t = "str" THEN value ELSE Str(value.t)

\* handleLogout without the call of localStorage.removeItem.
handleLogoutStateOnly ==
  /\ Truthy(token)
  /\ token' = Null
  /\ isSignup' = FALSE
  /\ username' = ""
  /\ password' = ""
  /\ authError' = ""
  /\ loading' = FALSE
  /\ request' = "none"
  /\ UNCHANGED <<storedToken, lastAttempt>>
  /\ UNCHANGED notAuth

\* The ways the request of handleSubmit ends: fetch rejects, or a response
\* arrives with res.ok and a body; json is FALSE when res.json() rejects.
FetchOutcomes ==
  { [arrived |-> FALSE, ok |-> FALSE, json |-> FALSE, body |-> Undefined] }
  \cup
  { [arrived |-> TRUE, ok |-> TRUE, json |-> TRUE,
     body |-> Obj(<< <<"access_token", Str(jwt)>>, <<"token_type", Str("bearer")>> >>)] :
    jwt \in {"jwt-1", "jwt-2"} }
  \cup
  { [arrived |-> TRUE, ok |-> ok, json |-> FALSE, body |-> Undefined] :
    ok \in BOOLEAN }
  \cup
  { [arrived |-> TRUE, ok |-> FALSE, json |-> TRUE, body |-> body] :
    body \in { Obj(<< <<"detail", Str("Incorrect username or password")>> >>),
               Obj(<< <<"detail", Str("Username already registered")>> >>),
               Obj(<< <<"detail", Str("")>> >>),
               Obj(<<>>) } }

\* The error the try block of handleSubmit throws for an outcome, "" when
\* it throws none: the message of the error is what the catch clause
\* hands to setError.
SubmitError(outcome) ==
  IF ~outcome.arrived THEN "Failed to fetch"
  ELSE IF ~outcome.json THEN "Unexpected end of JSON input"
  ELSE IF ~outcome.ok
    THEN OrElse(Prop(outcome.body, "detail"), Str("Auth failed")).v
  ELSE ""

\* handleSubmit up to await fetch: the Auth page is on display and the
\* submit button is enabled.
handleSubmit ==
  /\ ~Truthy(token)
  /\ ~loading
  /\ request = "none"
  /\ authError' = ""
  /\ loading' = TRUE
  /\ request' = "pending"
  /\ UNCHANGED <<storedToken, token, isSignup, username, password, lastAttempt>>
  /\ UNCHANGED notAuth

\* handleSubmit from await fetch on: the rest of the try block, the catch
\* clause and the finally clause.  handleAuthSuccess is setToken(jwt).
handleSubmitSettles(outcome) ==
  /\ request = "pending"
  /\ request' = "none"
  /\ loading' = FALSE
  /\ IF SubmitError(outcome) = ""
       THEN /\ storedToken' = setItem(Prop(outcome.body, "access_token"))
            /\ token' = Prop(outcome.body, "access_token")
            /\ lastAttempt' = "ok"
            /\ UNCHANGED authError
       ELSE /\ authError' = SubmitError(outcome)
            /\ lastAttempt' = "failed"
            /\ UNCHANGED <<storedToken, token>>
  /\ UNCHANGED <<isSignup, username, password>>
  /\ UNCHANGED notAuth

\* The inputs of the form: setUsername(e.target.value).
setUsername(value) ==
  /\ ~Truthy(token)
  /\ username' = value
  /\ UNCHANGED <<storedToken, token, isSignup, password, authError, loading,
                 request, lastAttempt>>
  /\ UNCHANGED notAuth

\* setPassword(e.target.value).
setPassword(value) ==
  /\ ~Truthy(token)
  /\ password' = value
  /\ UNCHANGED <<storedToken, token, isSignup, username, authError, loading,
                 request, lastAttempt>>
  /\ UNCHANGED notAuth

\* What is typed into the form.
UserNames == {"", "dana", "eli"}
Passwords == {"", "pw-1"}

\* toggleMode, with clearForm.
toggleMode ==
  /\ ~Truthy(token)
  /\ isSignup' = ~isSignup
  /\ username' = ""
  /\ password' = ""
  /\ authError' = ""
  /\ UNCHANGED <<storedToken, token, loading, request, lastAttempt>>
  /\ UNCHANGED notAuth

\* handleLogout, from the Chatbot; the Auth page is mounted anew.
handleLogout ==
  /\ Truthy(token)
  /\ storedToken' = Null
  /\ token' = Null
  /\ isSignup' = FALSE
  /\ username' = ""
  /\ password' = ""
  /\ authError' = ""
  /\ loading' = FALSE
  /\ request' = "none"
  /\ UNCHANGED lastAttempt
  /\ UNCHANGED notAuth

\* App is mounted anew (the page is loaded again): the token is read from
\* localStorage, and a request that was pending is dropped.
App ==
  /\ token' = storedToken
  /\ isSignup' = FALSE
  /\ username' = ""
  /\ password' = ""
  /\ authError' = ""
  /\ loading' = FALSE
  /\ request' = "none"
  /\ lastAttempt' = "none"
  /\ UNCHANGED storedToken
  /\ UNCHANGED notAuth

NextAuth ==
  \/ \E value \in UserNames : setUsername(value)
  \/ \E value \in Passwords : setPassword(value)
  \/ handleSubmit
  \/ \E outcome \in FetchOutcomes : handleSubmitSettles(outcome)
  \/ toggleMode
  \/ handleLogout
  \/ App

SpecAuth == Init /\ [][NextAuth]_vars

\* The token of the App is set exactly when one is stored, and the Chatbot
\* is on display exactly then.
TokenMatchesStorage ==
  /\ token # Null <=> storedToken # Null
  /\ Truthy(token) <=> storedToken # Null

\* What a step does to the two tokens: an attempt that succeeds stores the
\* token it sets, an attempt that fails changes neither token, leaves an
\* error message and loading false, and a step that clears the token of
\* the App leaves none stored.
TokenStep ==
  /\ (request = "pending" /\ request' = "none" /\ lastAttempt' = "ok")
       => /\ storedToken' # Null
          /\ token' = storedToken'
          /\ ~loading'
  /\ (request = "pending" /\ request' = "none" /\ lastAttempt' = "failed")
       => /\ token' = token
          /\ storedToken' = storedToken
          /\ authError' # ""
          /\ ~loading'
  /\ (token # Null /\ token' = Null) => storedToken' = Null

MessageTexts == {"", "Hi", "Hey"}

\* The props text and animate of an AnimatedText; messageId is the id of
\* its message.
AnimatedTextProps == [text : MessageTexts, animate : BOOLEAN]

\* What the effect, its cleanup and tick read and write.
World ==
  [animationStates |-> animationStates, timers |-> timers,
   displayedText |-> displayedText, indexRef |-> indexRef,
   onDoneCalls |-> onDoneCalls]

\* The handles that are pending or that the map still holds.
HandlesInUse(w) ==
  {t.handle : t \in w.timers}
  \cup {w.animationStates[m].timer :
          m \in {k \in MessageIds : w.animationStates[k] # Undefined}}

\* window.setTimeout(tick, stepMs): a handle that is not in use, and the
\* timer pending.
NewHandle(w) ==
  CHOOSE n \in 1..(Cardinality(HandlesInUse(w)) + 1) :
    /\ n \notin HandlesInUse(w)
    /\ \A k \in 1..(n - 1) : k \in HandlesInUse(w)

setTimeout(w, messageId, closure) ==
  [w EXCEPT !.timers =
     @ \cup {[handle |-> NewHandle(w), messageId |-> messageId, closure |-> closure]}]

\* clearTimeout(handle).
clearTimeout(w, handle) ==
  [w EXCEPT !.timers = {t \in @ : t.handle # handle}]

\* text.slice(0, nextIndex).
slice(s, nextIndex) ==
  SubSeq(s, 1, IF nextIndex < Len(s) THEN nextIndex ELSE Len(s))

\* The cleanup of the effect without the call of clearTimeout.
effectCleanupKeepsTimer(w, messageId) ==
  IF w.animationStates[messageId] # Undefined
     /\ w.animationStates[messageId].timer # 0
    THEN [w EXCEPT !.animationStates[messageId].isAnimating = FALSE,
                   !.animationStates[messageId].timer = 0]
    ELSE w

\* The cleanup the effect returns.
effectCleanup(w, messageId) ==
  IF w.animationStates[messageId] # Undefined
     /\ w.animationStates[messageId].timer # 0
    THEN [clearTimeout(w, w.animationStates[messageId].timer)
            EXCEPT !.animationStates[messageId].isAnimating = FALSE,
                   !.animationStates[messageId].timer = 0]
    ELSE w

\* The effect with animate false: the whole text, and the entry of the
\* map deleted with its timer.
effectNoAnimation(w, messageId, p) ==
  LET shown == [w EXCEPT !.displayedText[messageId] = p.text]
      state == w.animationStates[messageId]
  IN IF state = Undefined THEN shown
     ELSE [(IF state.timer # 0 THEN clearTimeout(shown, state.timer) ELSE shown)
             EXCEPT !.animationStates[messageId] = Undefined]

\* The effect from setDisplayedText("") on: the first timer, and the entry
\* of the map.
effectStart(w, messageId, p) ==
  LET cleared == [w EXCEPT !.displayedText[messageId] = "",
                           !.indexRef[messageId] = 0]
  IN [setTimeout(cleared, messageId, p.text)
        EXCEPT !.animationStates[messageId] =
                 [isAnimating |-> TRUE, currentText |-> p.text,
                  timer |-> NewHandle(cleared)]]

\* The effect of useEffect(..., [text, animate, speedMsPerChar, messageId]).
effect(w, messageId, p) ==
  LET state == w.animationStates[messageId]
  IN IF ~p.animate THEN effectNoAnimation(w, messageId, p)
     ELSE IF state # Undefined /\ state.isAnimating /\ state.currentText = p.text
       THEN w
     ELSE IF state # Undefined /\ state.isAnimating /\ state.timer # 0
       THEN effectStart(clearTimeout(w, state.timer), messageId, p)
     ELSE effectStart(w, messageId, p)

\* tick, for a timer that fires.
tick(w, t) ==
  LET messageId == t.messageId
      nextIndex == w.indexRef[messageId] + 1
      fired == [w EXCEPT !.timers = @ \ {t},
                         !.displayedText[messageId] = slice(t.closure, nextIndex),
                         !.indexRef[messageId] = nextIndex]
      state == w.animationStates[messageId]
  IN IF nextIndex < Len(t.closure)
       THEN IF state # Undefined
              THEN [setTimeout(fired, messageId, t.closure)
                      EXCEPT !.animationStates[messageId].timer = NewHandle(fired)]
              ELSE setTimeout(fired, messageId, t.closure)
       ELSE [(IF state # Undefined
                THEN [fired EXCEPT !.animationStates[messageId].isAnimating = FALSE,
                                   !.animationStates[messageId].timer = 0]
                ELSE fired)
               EXCEPT !.onDoneCalls[messageId] = @ + 1]

\* The state after a step that leaves w.
Becomes(w) ==
  /\ animationStates' = w.animationStates
  /\ timers' = w.timers
  /\ displayedText' = w.displayedText
  /\ indexRef' = w.indexRef
  /\ onDoneCalls' = w.onDoneCalls

\* The component of a message is mounted: useState(animate ? "" : text),
\* useRef(0), then the effect.
Mount(messageId, p) ==
  /\ ~mounted[messageId]
  /\ mounted' = [mounted EXCEPT ![messageId] = TRUE]
  /\ props' = [props EXCEPT ![messageId] = p]
  /\ propsEpoch' = [propsEpoch EXCEPT ![messageId] = ~@]
  /\ Becomes(effect([World EXCEPT
                       !.displayedText[messageId] = IF p.animate THEN "" ELSE p.text,
                       !.indexRef[messageId] = 0,
                       !.onDoneCalls[messageId] = 0],
                    messageId, p))
  /\ UNCHANGED notAnimation

\* The component is rendered with another text or another animate: the
\* cleanup of the last effect, then the effect.
Rerender(messageId, p) ==
  /\ mounted[messageId]
  /\ p # props[messageId]
  /\ props' = [props EXCEPT ![messageId] = p]
  /\ propsEpoch' = [propsEpoch EXCEPT ![messageId] = ~@]
  /\ Becomes(effect(effectCleanup([World EXCEPT !.onDoneCalls[messageId] = 0],
                                  messageId),
                    messageId, p))
  /\ UNCHANGED mounted
  /\ UNCHANGED notAnimation

\* The component is unmounted: the cleanup of the last effect; the state
\* and the ref of the component are gone.
Unmount(messageId) ==
  /\ mounted[messageId]
  /\ mounted' = [mounted EXCEPT ![messageId] = FALSE]
  /\ propsEpoch' = [propsEpoch EXCEPT ![messageId] = ~@]
  /\ Becomes([effectCleanup(World, messageId)
                EXCEPT !.displayedText[messageId] = "",
                       !.indexRef[messageId] = 0])
  /\ UNCHANGED props
  /\ UNCHANGED notAnimation

\* A pending timer of a message fires.
Tick(messageId) ==
  /\ \E t \in timers :
       /\ t.messageId = messageId
       /\ Becomes(tick(World, t))
  /\ UNCHANGED <<mounted, props, propsEpoch>>
  /\ UNCHANGED notAnimation

NextAnimation ==
  \/ \E messageId \in MessageIds : \E p \in AnimatedTextProps : Mount(messageId, p)
  \/ \E messageId \in MessageIds : \E p \in AnimatedTextProps : Rerender(messageId, p)
  \/ \E messageId \in MessageIds : Unmount(messageId)
  \/ \E messageId \in MessageIds : Tick(messageId)

SpecAnimation == Init /\ [][NextAnimation]_vars

\* The browser fires every timer that stays pending.
SpecAnimationFair ==
  SpecAnimation /\ \A messageId \in MessageIds : WF_vars(Tick(messageId))

\* The timers of a message that are pending.
PendingTimers(messageId) == {t \in timers : t.messageId = messageId}

\* No message has two timers pending, and a timer that is pending is the
\* one the map holds for its message.
OneTimerPerMessage ==
  /\ \A messageId \in MessageIds : Cardinality(PendingTimers(messageId)) <= 1
  /\ \A t \in timers :
       /\ animationStates[t.messageId] # Undefined
       /\ animationStates[t.messageId].timer = t.handle

\* The animation of a message is over: the whole text is on display,
\* onDone was called once, no timer is pending.
AnimationDone(messageId) ==
  /\ displayedText[messageId] = props[messageId].text
  /\ onDoneCalls[messageId] = 1
  /\ PendingTimers(messageId) = {}

\* An animation that is over stays over while the component stays mounted
\* with the same props, and onDone is never called a second time.
DoneStaysDone ==
  \A messageId \in MessageIds :
    /\ onDoneCalls'[messageId] <= 1
    /\ (AnimationDone(messageId) /\ propsEpoch'[messageId] = propsEpoch[messageId])
         => AnimationDone(messageId)'

\* C30: an AnimatedText with animate true that stays mounted with the same
\* props ends up with the whole text on display, onDone called exactly
\* once and no timer pending; at every moment a message has at most one
\* timer pending, also when the text changes or animate becomes false
\* while the animation runs.  (Either the component is mounted, unmounted
\* or given other props again and again, or from some moment on it is
\* done whenever it is mounted with animate true.)
C30_AnimationEnds ==
  /\ []OneTimerPerMessage
  /\ [][DoneStaysDone]_vars
  /\ \A messageId \in MessageIds :
       \/ []<><<propsEpoch'[messageId] # propsEpoch[messageId]>>_vars
       \/ <>[]((mounted[messageId] /\ props[messageId].animate)
                 => AnimationDone(messageId))

\* The text of a message was changed while its animation ran, and the
\* animation of the other text is over.
C30_DoneAfterTextChange ==
  /\ mounted["m-1"]
  /\ props["m-1"] = [text |-> "Hey", animate |-> TRUE]
  /\ animationStates["m-1"] # Undefined
  /\ animationStates["m-1"].timer = 0
  /\ indexRef["m-1"] = 3
  /\ AnimationDone("m-1")
  /\ propsEpoch["m-1"] = FALSE

====
